---------------------------- MODULE Spec2Model ----------------------------
(***************************************************************************)
(* Model of the database connection manager of rshdhere/gym                *)
(* (internal/store/database.go, current revision: the second `package     *)
(* store` block of the file, lines 91-434) and of the process entry point  *)
(* (main).                                                                 *)
(*                                                                         *)
(* Go strings are modelled as sequences of one-character strings, so that  *)
(* strings.TrimSpace, strings.ToLower, strings.HasPrefix, strconv.Atoi and *)
(* time.ParseDuration are computed character by character.  Times and      *)
(* durations are whole seconds.                                            *)
(***************************************************************************)
EXTENDS Integers, Sequences, FiniteSets, TLC

VARIABLES
    environ,        \* the process environment: variable name -> Go string
    harness,        \* which entry point drives the run: "unit", "fetch",
                    \* "rotate", "main"
    arg,            \* unit harness: the function called and its arguments
    ret,            \* unit harness: the value returned by the direct call
    now,            \* the wall clock, in seconds
    secretCache,    \* map[string]cachedSecret: name -> entry, or NoEntry
    secretCacheMu,  \* sync.RWMutex: [w |-> writer or None, r |-> set of readers]
    awsCfg,         \* the remote-config singleton
    awsCfgErr,      \* the error of its initialization
    awsCfgOnce,     \* sync.Once: [done |-> BOOLEAN, m |-> holder or None]
    remoteSecret,   \* the secret store: name -> current bundle and the
                    \* time it was last changed
    fpc,            \* fetchDBSecret: each caller's position
    fname,          \* fetchDBSecret: each caller's argument `name`
    fdeadline,      \* fetchDBSecret: the deadline of each caller's ctx
    fsecret,        \* fetchDBSecret: each caller's local bundle
    fret,           \* fetchDBSecret: what each caller's call returned
    fcalls,         \* calls each caller has started
    requests,       \* remote secret requests each caller issued in its call
    initRuns,       \* executions of LoadDefaultConfig so far
    cfgReturned,    \* the (config, error) pairs awsConfig has returned
    open,           \* OpenWithProvider: its position and local variables
    oret,           \* OpenWithProvider: what it returned
    handles,        \* every *sql.DB that sql.Open has returned, in order
    attempts,       \* openWithRetry: index and start time of each attempt
    sleeps,         \* openWithRetry: index, length and start of each sleep
    dsnParses,      \* whether the pgx driver accepts the DSN in sql.Open
    hc,             \* HealthCheck: its position, contexts and result
    provider,       \* the SecretProvider handed to OpenWithProvider, the
                    \* calls of OpenWithProvider so far and the results a
                    \* substituted provider's GetSecret has returned
    mpc,            \* main: its position
    app,            \* main: the Application NewApplication returned
    exitHow         \* main: how the process ended

cacheVars == <<secretCache, secretCacheMu>>
onceVars  == <<awsCfg, awsCfgErr, awsCfgOnce, initRuns, cfgReturned>>
fetchVars == <<fpc, fname, fdeadline, fsecret, fret, fcalls, requests>>

procVars  == <<environ, harness, arg, ret, remoteSecret, hc, provider>>
openVars  == <<open, oret, handles, attempts, sleeps, dsnParses>>
mainVars  == <<mpc, app, exitHow>>

vars == <<procVars, now, cacheVars, onceVars, fetchVars, openVars, mainVars>>

----------------------------------------------------------------------------
(* Bounds of the model                                                     *)

\* most whitespace characters put before / after an environment value
MaxPad == 1
\* largest pool size written into DB_MAX_OPEN_CONNS / DB_MAX_IDLE_CONNS
MaxConns == 3
\* the clock stops ticking at this time
MaxTime == 2
\* calls of the default provider each goroutine of the fetch harness makes
MaxCalls == 2

----------------------------------------------------------------------------
(* Go strings and errors                                                   *)

\* An error is the chain of its messages, outermost first; nil is empty.
Nil == <<>>
\* fmt.Errorf("<msg>: %w", err)
Wrap(msg, err) == <<msg>> \o err
None == "none"

Lowercase == <<"a","b","c","d","e","f","g","h","i","j","k","l","m",
               "n","o","p","q","r","s","t","u","v","w","x","y","z">>
Uppercase == <<"A","B","C","D","E","F","G","H","I","J","K","L","M",
               "N","O","P","Q","R","S","T","U","V","W","X","Y","Z">>
Digits    == <<"0","1","2","3","4","5","6","7","8","9">>

\* unicode.IsSpace on the characters the model uses
IsSpace(c) == c \in {" ", "\t", "\n", "\r"}

RECURSIVE TrimLeft(_)
TrimLeft(s) ==
    IF s = <<>> THEN s
    ELSE IF IsSpace(Head(s)) THEN TrimLeft(Tail(s)) ELSE s

RECURSIVE TrimRight(_)
TrimRight(s) ==
    IF s = <<>> THEN s
    ELSE IF IsSpace(s[Len(s)]) THEN TrimRight(SubSeq(s, 1, Len(s) - 1)) ELSE s

\* strings.TrimSpace
TrimSpace(s) == TrimRight(TrimLeft(s))

LowerChar(c) ==
    IF \E i \in 1..26 : Uppercase[i] = c
    THEN Lowercase[CHOOSE i \in 1..26 : Uppercase[i] = c]
    ELSE c

\* strings.ToLower
ToLower(s) == [i \in 1..Len(s) |-> LowerChar(s[i])]

\* strings.HasPrefix
HasPrefix(s, p) == Len(s) >= Len(p) /\ SubSeq(s, 1, Len(p)) = p

IsDigit(c) == \E i \in 1..10 : Digits[i] = c
DigitVal(c) == (CHOOSE i \in 1..10 : Digits[i] = c) - 1

RECURSIVE DigitsVal(_)
DigitsVal(s) ==
    IF s = <<>> THEN 0
    ELSE 10 * DigitsVal(SubSeq(s, 1, Len(s) - 1)) + DigitVal(s[Len(s)])

AllDigits(s) == s # <<>> /\ \A i \in 1..Len(s) : IsDigit(s[i])

\* strconv.Atoi: an optional sign, then one or more decimal digits.
\* (Values beyond the int range, which Atoi rejects, do not occur within
\* the bounds.)
Atoi(s) ==
    LET signed == s # <<>> /\ Head(s) \in {"+", "-"}
        body   == IF signed THEN Tail(s) ELSE s
    IN  IF ~AllDigits(body) THEN [val |-> 0, err |-> <<"invalid syntax">>]
        ELSE [val |-> IF signed /\ Head(s) = "-" THEN 0 - DigitsVal(body)
                      ELSE DigitsVal(body),
              err |-> Nil]

Second == 1
Minute == 60

\* time.ParseDuration, restricted to the forms [sign]<digits>s,
\* [sign]<digits>m and "0"; every other string the model supplies is one
\* ParseDuration rejects.  The value is in seconds.
ParseDuration(s) ==
    LET signed == s # <<>> /\ Head(s) \in {"+", "-"}
        body   == IF signed THEN Tail(s) ELSE s
        neg    == signed /\ Head(s) = "-"
        num    == IF body = <<>> THEN <<>> ELSE SubSeq(body, 1, Len(body) - 1)
        unit   == IF body = <<>> THEN "" ELSE body[Len(body)]
        scale  == IF unit = "m" THEN Minute ELSE Second
    IN  IF body = <<"0">> THEN [val |-> 0, err |-> Nil]
        ELSE IF unit \in {"s", "m"} /\ AllDigits(num)
             THEN [val |-> IF neg THEN 0 - scale * DigitsVal(num)
                           ELSE scale * DigitsVal(num),
                   err |-> Nil]
             ELSE [val |-> 0, err |-> <<"invalid duration">>]

----------------------------------------------------------------------------
(* Constants of the package                                                *)

secretNameProd ==
    <<"p","r","o","d","/","g","y","m","/",
      "p","o","s","t","g","r","e","s","q","l">>
secretNameStaging ==
    <<"s","t","a","g","g","i","n","g","/","g","y","m","/",
      "p","o","s","t","g","r","e","s","q","l">>

appEnvVar        == "APP_ENV"
secretNameEnvVar == "DB_SECRET_NAME"

localEnvVal   == <<"l","o","c","a","l">>
stagingEnvVal == <<"s","t","a","g","i","n","g">>
prodEnvVal    == <<"p","r","o","d">>

EnvVars == {"APP_ENV", "DB_SECRET_NAME", "DB_SSL_MODE", "DB_CONNECT_TIMEOUT",
            "DB_SECRET_CACHE_TTL", "DB_MAX_OPEN_CONNS", "DB_MAX_IDLE_CONNS",
            "DB_CONN_MAX_LIFETIME", "AWS_REGION", "POSTGRES_HOST",
            "POSTGRES_PORT", "POSTGRES_USER", "POSTGRES_PASSWORD",
            "POSTGRES_DB"}

\* os.Getenv: the value, or "" when the variable is not set
Getenv(key) == environ[key]

----------------------------------------------------------------------------
(* Configuration helpers                                                   *)

getenvDefault(key, def) ==
    LET val == TrimSpace(Getenv(key))
    IN  IF val # <<>> THEN val ELSE def

getenvInt(key, def) ==
    LET raw == TrimSpace(Getenv(key))
    IN  IF raw = <<>> THEN def
        ELSE IF Atoi(raw).err # Nil THEN def
        ELSE Atoi(raw).val

getenvDuration(key, def) ==
    LET raw == TrimSpace(Getenv(key))
    IN  IF raw = <<>> THEN def
        ELSE IF ParseDuration(raw).err # Nil THEN def
        ELSE ParseDuration(raw).val

----------------------------------------------------------------------------
(* Environment classifier                                                  *)

envLabelNoTrim ==
    LET raw == Getenv(appEnvVar)
        env == ToLower(raw)
    IN  CASE env = <<>> ->
               [label |-> localEnvVal, raw |-> raw, err |-> Nil]
          [] HasPrefix(env, <<"l","o","c">>) ->
               [label |-> localEnvVal, raw |-> raw, err |-> Nil]
          [] HasPrefix(env, <<"s","t","a","g">>) ->
               [label |-> stagingEnvVal, raw |-> raw, err |-> Nil]
          [] HasPrefix(env, <<"p","r","o","d">>) ->
               [label |-> prodEnvVal, raw |-> raw, err |-> Nil]
          [] OTHER ->
               [label |-> <<>>, raw |-> raw, err |-> <<"unknown APP_ENV value">>]

envLabel ==
    LET raw == TrimSpace(Getenv(appEnvVar))
        env == ToLower(raw)
    IN  CASE env = <<>> ->
               [label |-> localEnvVal, raw |-> raw, err |-> Nil]
          [] HasPrefix(env, <<"l","o","c">>) ->
               [label |-> localEnvVal, raw |-> raw, err |-> Nil]
          [] HasPrefix(env, <<"s","t","a","g">>) ->
               [label |-> stagingEnvVal, raw |-> raw, err |-> Nil]
          [] HasPrefix(env, <<"p","r","o","d">>) ->
               [label |-> prodEnvVal, raw |-> raw, err |-> Nil]
          [] OTHER ->
               [label |-> <<>>, raw |-> raw, err |-> <<"unknown APP_ENV value">>]

----------------------------------------------------------------------------
(* Secret name selection                                                   *)

selectSecretNameStagingIsProd(env) ==
    LET override == TrimSpace(Getenv(secretNameEnvVar))
    IN  IF override # <<>> THEN [name |-> override, err |-> Nil]
        ELSE CASE env = stagingEnvVal -> [name |-> secretNameProd, err |-> Nil]
               [] env = prodEnvVal    -> [name |-> secretNameProd, err |-> Nil]
               [] OTHER -> [name |-> <<>>, err |-> <<"no secret name configured for env">>]

selectSecretName(env) ==
    LET override == TrimSpace(Getenv(secretNameEnvVar))
    IN  IF override # <<>> THEN [name |-> override, err |-> Nil]
        ELSE CASE env = stagingEnvVal -> [name |-> secretNameStaging, err |-> Nil]
               [] env = prodEnvVal    -> [name |-> secretNameProd, err |-> Nil]
               [] OTHER -> [name |-> <<>>, err |-> <<"no secret name configured for env">>]

----------------------------------------------------------------------------
(* Pool configurator: the limits configureConnectionPool passes to         *)
(* SetMaxOpenConns, SetMaxIdleConns and SetConnMaxLifetime                 *)

poolLimitsNoClamp ==
    LET maxOpen == getenvInt("DB_MAX_OPEN_CONNS", 10)
        maxIdle == getenvInt("DB_MAX_IDLE_CONNS", 5)
    IN  [maxOpen  |-> maxOpen,
         maxIdle  |-> maxIdle,
         lifetime |-> getenvDuration("DB_CONN_MAX_LIFETIME", 30 * Minute)]

poolLimits ==
    LET maxOpen == getenvInt("DB_MAX_OPEN_CONNS", 10)
        maxIdle == getenvInt("DB_MAX_IDLE_CONNS", 5)
    IN  [maxOpen  |-> maxOpen,
         maxIdle  |-> IF maxIdle > maxOpen THEN maxOpen ELSE maxIdle,
         lifetime |-> getenvDuration("DB_CONN_MAX_LIFETIME", 30 * Minute)]

----------------------------------------------------------------------------
(* Secret cache, remote-config singleton and the default secret provider   *)

\* the callers of each harness: concurrent goroutines calling the default
\* provider directly, or the single goroutine of main
FetchCallers == {"g1", "g2"}
MainCaller   == "main"
Callers      == FetchCallers \cup {MainCaller}

\* A cachedSecret is [present, secret, expiresAt]; storedAt and ttl record
\* the time.Now() and the TTL that expiresAt was computed from (line 402).
NoEntry    == [present |-> FALSE]
NoDeadline == -1

\* DBSecret{}: the zero bundle
ZeroSecret == [host |-> <<>>, port |-> <<>>, dbname |-> <<>>,
               username |-> <<>>, password |-> <<>>]

\* no call of fetchDBSecret has returned to the caller and not been consumed
NoReturn == [secret |-> ZeroSecret, err |-> Nil, hit |-> FALSE]

getSecretCacheTTL == getenvDuration("DB_SECRET_CACHE_TTL", 5 * Minute)

\* time.Time.After
After(t, u) == t > u

\* ctx.Err() != nil: the deadline of the caller's context has passed
Expired(c) == fdeadline[c] # NoDeadline /\ now >= fdeadline[c]

\* secretCacheMu.Lock(): blocks while any reader or writer holds the mutex
MuLockNoExclusion(c) == secretCacheMu' = [secretCacheMu EXCEPT !.w = c]

MuLock(c) ==
    /\ secretCacheMu.w = None
    /\ secretCacheMu.r = {}
    /\ secretCacheMu' = [secretCacheMu EXCEPT !.w = c]

MuUnlock(c) == secretCacheMu' = [secretCacheMu EXCEPT !.w = None]

\* loadCachedSecret, lines 383-384: take the lock, read the map
lcsLock(c) ==
    /\ fpc[c] = "lcsLock"
    /\ MuLock(c)
    /\ fpc' = [fpc EXCEPT ![c] = "lcsCheck"]
    /\ UNCHANGED <<procVars, openVars, mainVars, now, secretCache,
                   onceVars, fname, fdeadline, fsecret,
                   fret, fcalls, requests>>

\* whether loadCachedSecret reports the entry as expired at time t
lcsExpired(t, entry) == After(t, entry.expiresAt)

\* loadCachedSecret, lines 385-395, and fetchDBSecret, lines 348-350
lcsCheckSlidingExpiry(c) ==
    LET entry == secretCache[fname[c]]
        ok    == entry.present
        hit   == ok /\ ~lcsExpired(now, entry)
    IN  /\ fpc[c] = "lcsCheck"
        /\ secretCacheMu.w = c
        /\ secretCache' = IF ok /\ ~hit
                          THEN [secretCache EXCEPT ![fname[c]] = NoEntry]
                          ELSE IF hit
                          THEN [secretCache EXCEPT ![fname[c]].expiresAt =
                                                      now + entry.ttl]
                          ELSE secretCache
        /\ MuUnlock(c)
        /\ IF hit
           THEN /\ fpc' = [fpc EXCEPT ![c] = "ret"]
                /\ fret' = [fret EXCEPT ![c] = [secret |-> entry.secret,
                                                err |-> Nil, hit |-> TRUE]]
           ELSE /\ fpc' = [fpc EXCEPT ![c] = "onceCheck"]
                /\ UNCHANGED fret
        /\ UNCHANGED <<procVars, openVars, mainVars, now, onceVars,
                       fname, fdeadline, fsecret, fcalls, requests>>

lcsCheck(c) ==
    LET entry == secretCache[fname[c]]
        ok    == entry.present
        hit   == ok /\ ~lcsExpired(now, entry)
    IN  /\ fpc[c] = "lcsCheck"
        /\ secretCacheMu.w = c
        /\ secretCache' = IF ok /\ ~hit
                          THEN [secretCache EXCEPT ![fname[c]] = NoEntry]
                          ELSE secretCache
        /\ MuUnlock(c)
        /\ IF hit
           THEN /\ fpc' = [fpc EXCEPT ![c] = "ret"]
                /\ fret' = [fret EXCEPT ![c] = [secret |-> entry.secret,
                                                err |-> Nil, hit |-> TRUE]]
           ELSE /\ fpc' = [fpc EXCEPT ![c] = "onceCheck"]
                /\ UNCHANGED fret
        /\ UNCHANGED <<procVars, openVars, mainVars, now, onceVars,
                       fname, fdeadline, fsecret, fcalls, requests>>

\* sync.Once.Do, fast path: the atomic load of done
onceCheckNoGate(c) ==
    /\ fpc[c] = "onceCheck"
    /\ fpc' = [fpc EXCEPT ![c] = "onceRun"]
    /\ UNCHANGED <<procVars, openVars, mainVars, now, cacheVars,
                   onceVars, fname, fdeadline, fsecret, fret, fcalls,
                   requests>>

onceCheck(c) ==
    /\ fpc[c] = "onceCheck"
    /\ fpc' = [fpc EXCEPT ![c] = IF awsCfgOnce.done THEN "cfgRead"
                                 ELSE "onceLock"]
    /\ UNCHANGED <<procVars, openVars, mainVars, now, cacheVars,
                   onceVars, fname, fdeadline, fsecret, fret, fcalls,
                   requests>>

\* sync.Once.Do, slow path: lock, then look at done again
onceLockNoWait(c) ==
    /\ fpc[c] = "onceLock"
    /\ IF awsCfgOnce.done
       THEN /\ fpc' = [fpc EXCEPT ![c] = "cfgRead"]
            /\ UNCHANGED awsCfgOnce
       ELSE /\ fpc' = [fpc EXCEPT ![c] = "onceRun"]
            /\ awsCfgOnce' = [awsCfgOnce EXCEPT !.m = c]
    /\ UNCHANGED <<procVars, openVars, mainVars, now, cacheVars,
                   awsCfg, awsCfgErr, initRuns, cfgReturned, fname,
                   fdeadline, fsecret, fret, fcalls, requests>>

onceLock(c) ==
    /\ fpc[c] = "onceLock"
    /\ awsCfgOnce.m = None
    /\ IF awsCfgOnce.done
       THEN /\ fpc' = [fpc EXCEPT ![c] = "cfgRead"]
            /\ UNCHANGED awsCfgOnce
       ELSE /\ fpc' = [fpc EXCEPT ![c] = "onceRun"]
            /\ awsCfgOnce' = [awsCfgOnce EXCEPT !.m = c]
    /\ UNCHANGED <<procVars, openVars, mainVars, now, cacheVars,
                   awsCfg, awsCfgErr, initRuns, cfgReturned, fname,
                   fdeadline, fsecret, fret, fcalls, requests>>

\* what config.LoadDefaultConfig can return on its n-th execution
LoadDefaultConfigResults(n) ==
    {[cfg |-> <<"aws.Config", n>>, err |-> Nil]}
    \cup {[cfg |-> <<"zero">>, err |-> <<e, n>>] :
            e \in {"context deadline exceeded", "invalid configuration"}}

\* Once.Do calls the function it was given: config.LoadDefaultConfig
\* starts (line 342)
onceRun(c) ==
    /\ fpc[c] = "onceRun"
    /\ initRuns' = initRuns + 1
    /\ fpc' = [fpc EXCEPT ![c] = "onceExit"]
    /\ UNCHANGED <<procVars, openVars, mainVars, now, cacheVars,
                   awsCfg, awsCfgErr, awsCfgOnce, cfgReturned, fname,
                   fdeadline, fsecret, fret, fcalls, requests>>

\* LoadDefaultConfig returns and its results are assigned (line 342);
\* then Once's deferred done.Store(1) and Unlock
onceExitRetryOnError(c) ==
    /\ fpc[c] = "onceExit"
    /\ \E r \in LoadDefaultConfigResults(initRuns) :
          /\ awsCfg' = r.cfg
          /\ awsCfgErr' = r.err
          /\ awsCfgOnce' = [done |-> r.err = Nil, m |-> None]
    /\ fpc' = [fpc EXCEPT ![c] = "cfgRead"]
    /\ UNCHANGED <<procVars, openVars, mainVars, now, cacheVars,
                   initRuns, cfgReturned, fname, fdeadline, fsecret, fret,
                   fcalls, requests>>

onceExit(c) ==
    /\ fpc[c] = "onceExit"
    /\ \E r \in LoadDefaultConfigResults(initRuns) :
          /\ awsCfg' = r.cfg
          /\ awsCfgErr' = r.err
    /\ awsCfgOnce' = [done |-> TRUE, m |-> None]
    /\ fpc' = [fpc EXCEPT ![c] = "cfgRead"]
    /\ UNCHANGED <<procVars, openVars, mainVars, now, cacheVars,
                   initRuns, cfgReturned, fname, fdeadline, fsecret, fret,
                   fcalls, requests>>

\* awsConfig, line 344, and fetchDBSecret, lines 352-355
cfgRead(c) ==
    /\ fpc[c] = "cfgRead"
    /\ cfgReturned' = cfgReturned \cup {<<awsCfg, awsCfgErr>>}
    /\ IF awsCfgErr # Nil
       THEN /\ fpc' = [fpc EXCEPT ![c] = "ret"]
            /\ fret' = [fret EXCEPT ![c] =
                           [secret |-> ZeroSecret,
                            err |-> Wrap("load aws config", awsCfgErr),
                            hit |-> FALSE]]
       ELSE /\ fpc' = [fpc EXCEPT ![c] = "getSecretValue"]
            /\ UNCHANGED fret
    /\ UNCHANGED <<procVars, openVars, mainVars, now, cacheVars,
                   awsCfg, awsCfgErr, awsCfgOnce, initRuns, fname,
                   fdeadline, fsecret, fcalls, requests>>

\* what svc.GetSecretValue and the decoding of its payload can give:
\* a request error, no string payload, malformed JSON, or the bundle the
\* store holds.  With the context's deadline passed the request fails.
GetSecretValueResults(c) ==
    IF Expired(c)
    THEN {[secret |-> ZeroSecret,
           err |-> <<"get secret value", "context deadline exceeded">>]}
    ELSE {[secret |-> ZeroSecret, err |-> <<"get secret value", "request failed">>],
          [secret |-> ZeroSecret, err |-> <<"secret value missing string payload">>],
          [secret |-> ZeroSecret, err |-> <<"decode secret json", "invalid character">>],
          [secret |-> remoteSecret[fname[c]].value, err |-> Nil]}

\* fetchDBSecret, lines 357-375
getSecretValueStoresOnError(c) ==
    /\ fpc[c] = "getSecretValue"
    /\ requests' = [requests EXCEPT ![c] = @ + 1]
    /\ \E r \in GetSecretValueResults(c) :
          /\ fpc' = [fpc EXCEPT ![c] = "scsLock"]
          /\ fsecret' = [fsecret EXCEPT ![c] = r.secret]
          /\ UNCHANGED fret
    /\ UNCHANGED <<procVars, openVars, mainVars, now, cacheVars,
                   onceVars, fname, fdeadline, fcalls>>

getSecretValue(c) ==
    /\ fpc[c] = "getSecretValue"
    /\ requests' = [requests EXCEPT ![c] = @ + 1]
    /\ \E r \in GetSecretValueResults(c) :
          IF r.err # Nil
          THEN /\ fpc' = [fpc EXCEPT ![c] = "ret"]
               /\ fret' = [fret EXCEPT ![c] = [secret |-> ZeroSecret,
                                               err |-> r.err, hit |-> FALSE]]
               /\ UNCHANGED fsecret
          ELSE /\ fpc' = [fpc EXCEPT ![c] = "scsLock"]
               /\ fsecret' = [fsecret EXCEPT ![c] = r.secret]
               /\ UNCHANGED fret
    /\ UNCHANGED <<procVars, openVars, mainVars, now, cacheVars,
                   onceVars, fname, fdeadline, fcalls>>

\* storeCachedSecret, line 399
scsLock(c) ==
    /\ fpc[c] = "scsLock"
    /\ MuLock(c)
    /\ fpc' = [fpc EXCEPT ![c] = "scsStore"]
    /\ UNCHANGED <<procVars, openVars, mainVars, now, secretCache,
                   onceVars, fname, fdeadline, fsecret,
                   fret, fcalls, requests>>

\* storeCachedSecret, lines 400-404, and fetchDBSecret, line 379
scsStoreIfAbsent(c) ==
    /\ fpc[c] = "scsStore"
    /\ secretCacheMu.w = c
    /\ secretCache' = IF secretCache[fname[c]].present THEN secretCache
                      ELSE [secretCache EXCEPT ![fname[c]] =
                              [present |-> TRUE, secret |-> fsecret[c],
                               expiresAt |-> now + getSecretCacheTTL,
                               storedAt |-> now, ttl |-> getSecretCacheTTL]]
    /\ MuUnlock(c)
    /\ fpc' = [fpc EXCEPT ![c] = "ret"]
    /\ fret' = [fret EXCEPT ![c] = [secret |-> fsecret[c], err |-> Nil,
                                    hit |-> FALSE]]
    /\ UNCHANGED <<procVars, openVars, mainVars, now, onceVars,
                   fname, fdeadline, fsecret, fcalls, requests>>

scsStore(c) ==
    /\ fpc[c] = "scsStore"
    /\ secretCacheMu.w = c
    /\ secretCache' = [secretCache EXCEPT ![fname[c]] =
                          [present |-> TRUE, secret |-> fsecret[c],
                           expiresAt |-> now + getSecretCacheTTL,
                           storedAt |-> now, ttl |-> getSecretCacheTTL]]
    /\ MuUnlock(c)
    /\ fpc' = [fpc EXCEPT ![c] = "ret"]
    /\ fret' = [fret EXCEPT ![c] = [secret |-> fsecret[c], err |-> Nil,
                                    hit |-> FALSE]]
    /\ UNCHANGED <<procVars, openVars, mainVars, now, onceVars,
                   fname, fdeadline, fsecret, fcalls, requests>>

\* one step of fetchDBSecret by caller c
fetchDBSecret(c) ==
    \/ lcsLock(c)
    \/ lcsCheck(c)
    \/ onceCheck(c)
    \/ onceLock(c)
    \/ onceRun(c)
    \/ onceExit(c)
    \/ cfgRead(c)
    \/ getSecretValue(c)
    \/ scsLock(c)
    \/ scsStore(c)

----------------------------------------------------------------------------
(* DSN builder                                                             *)

\* url.QueryEscape leaves these characters as they are
Unreserved(c) ==
    \/ \E i \in 1..26 : Lowercase[i] = c \/ Uppercase[i] = c
    \/ IsDigit(c)
    \/ c \in {"-", "_", ".", "~"}

\* url.QueryEscape of one character: "+" for a space, %XX (the character's
\* code in upper-case hexadecimal) for every other character it escapes
EscapeChar(c) ==
    CASE Unreserved(c) -> <<c>>
      [] c = " " -> <<"+">>
      [] c = "@" -> <<"%","4","0">>
      [] c = ":" -> <<"%","3","A">>
      [] c = "/" -> <<"%","2","F">>
      [] c = "?" -> <<"%","3","F">>
      [] c = "%" -> <<"%","2","5">>
      [] c = "+" -> <<"%","2","B">>
      [] c = "&" -> <<"%","2","6">>
      [] c = "=" -> <<"%","3","D">>
      [] c = "#" -> <<"%","2","3">>
      [] c = "!" -> <<"%","2","1">>
      [] c = "$" -> <<"%","2","4">>
      [] c = "'" -> <<"%","2","7">>
      [] c = "(" -> <<"%","2","8">>
      [] c = ")" -> <<"%","2","9">>
      [] c = "*" -> <<"%","2","A">>
      [] c = "," -> <<"%","2","C">>
      [] c = ";" -> <<"%","3","B">>
      [] c = "[" -> <<"%","5","B">>
      [] c = "]" -> <<"%","5","D">>

RECURSIVE QueryEscape(_)
QueryEscape(s) ==
    IF s = <<>> THEN <<>> ELSE EscapeChar(Head(s)) \o QueryEscape(Tail(s))

\* fmt.Sprintf("postgresql://%s:%s@%s:%s/%s?sslmode=%s", ...)
FormatDSN(user, pass, host, port, db, sslMode) ==
    <<"p","o","s","t","g","r","e","s","q","l",":","/","/">>
       \o user \o <<":">> \o pass \o <<"@">> \o host \o <<":">> \o port
       \o <<"/">> \o db
       \o <<"?","s","s","l","m","o","d","e","=">> \o sslMode

localDSNFromEnv ==
    LET host    == getenvDefault("POSTGRES_HOST",
                                 <<"l","o","c","a","l","h","o","s","t">>)
        port    == getenvDefault("POSTGRES_PORT", <<"5","4","3","2">>)
        user    == getenvDefault("POSTGRES_USER",
                                 <<"p","o","s","t","g","r","e","s">>)
        pass    == getenvDefault("POSTGRES_PASSWORD",
                                 <<"p","o","s","t","g","r","e","s">>)
        db      == getenvDefault("POSTGRES_DB",
                                 <<"p","o","s","t","g","r","e","s">>)
        sslMode == getenvDefault("DB_SSL_MODE",
                                 <<"d","i","s","a","b","l","e">>)
    IN  FormatDSN(user, pass, host, port, db, sslMode)

\* resolveDSN, lines 205 and 217-225
remoteDSNNoEscape(secret) ==
    LET sslMode == getenvDefault("DB_SSL_MODE",
                                 <<"r","e","q","u","i","r","e">>)
    IN  FormatDSN(secret.username, secret.password,
                  secret.host, secret.port, secret.dbname, sslMode)

remoteDSN(secret) ==
    LET sslMode == getenvDefault("DB_SSL_MODE",
                                 <<"r","e","q","u","i","r","e">>)
    IN  FormatDSN(QueryEscape(secret.username), QueryEscape(secret.password),
                  secret.host, secret.port, secret.dbname, sslMode)

localEnvVars == <<"l","o","c","a","l","-","e","n","v","-","v","a","r","s">>

----------------------------------------------------------------------------
(* Open: OpenWithProvider, resolveDSN, openWithRetry, configureConnectionPool *)

\* a nil *sql.DB; the handles sql.Open returns are numbered from 1
NilDB == 0

\* defaultSecretProvider{} (lines 155-159), handed over by Open (line 162)
DefaultProvider == [kind |-> "default", opens |-> 0, calls |-> <<>>]

\* bundles a substituted provider returns: they differ from each other and
\* from what the secret store holds
StubBundles ==
    {[host |-> <<"h", d>>, port |-> <<"5","4","3","2">>,
      dbname |-> <<"g","y","m">>, username |-> <<"u", d>>,
      password |-> <<"p", "&", d>>] : d \in {"1", "2"}}

\* what the GetSecret of a substituted SecretProvider (lines 151-153) can
\* return
StubGetSecretResults ==
    {[secret |-> b, err |-> Nil] : b \in StubBundles}
    \cup {[secret |-> ZeroSecret, err |-> <<"no such secret">>]}

OpenIdle == [pc |-> "idle", ctxDeadline |-> NoDeadline, env |-> <<>>,
             rawEnv |-> <<>>, dsn |-> <<>>, secretUsed |-> <<>>,
             i |-> 0, db |-> NilDB, err |-> Nil]

\* ctx.Err() != nil for the context OpenWithProvider derived (line 171)
DeadlinePassed == open.ctxDeadline # NoDeadline /\ now >= open.ctxDeadline

\* OpenWithProvider returns (lines 176, 181, 186, 197); the deferred cancel
\* runs
OpenReturns(db, err) ==
    /\ oret' = [db |-> db, err |-> err]
    /\ open' = [open EXCEPT !.pc = "returned", !.db = db, !.err = err]

\* Open (line 162) and OpenWithProvider, lines 166-177: the caller's context
\* has no deadline
OpenWithProviderDefaultsToLocal ==
    /\ open.pc = "called"
    /\ LET timeout == getenvDuration("DB_CONNECT_TIMEOUT", 10 * Second)
           l       == envLabel
       IN  open' = [open EXCEPT !.pc = "resolveDSN",
                                !.ctxDeadline = now + timeout,
                                !.env = IF l.err # Nil THEN localEnvVal
                                        ELSE l.label,
                                !.rawEnv = l.raw]
    /\ UNCHANGED <<procVars, now, cacheVars, onceVars, fetchVars, oret,
                   handles, attempts, sleeps, dsnParses, mainVars>>

OpenWithProvider ==
    /\ open.pc = "called"
    /\ LET timeout == getenvDuration("DB_CONNECT_TIMEOUT", 10 * Second)
           l       == envLabel
       IN  IF l.err # Nil
           THEN /\ oret' = [db |-> NilDB, err |-> l.err]
                /\ open' = [open EXCEPT !.pc = "returned",
                                        !.ctxDeadline = now + timeout,
                                        !.rawEnv = l.raw, !.err = l.err]
           ELSE /\ open' = [open EXCEPT !.pc = "resolveDSN",
                                        !.ctxDeadline = now + timeout,
                                        !.env = l.label, !.rawEnv = l.raw]
                /\ UNCHANGED oret
    /\ UNCHANGED <<procVars, now, cacheVars, onceVars, fetchVars, handles,
                   attempts, sleeps, dsnParses, mainVars>>

\* resolveDSN, lines 201-212: the local DSN, or the call of the default
\* provider's GetSecret, which is fetchDBSecret (line 158)
resolveDSNOverrideFirst ==
    /\ open.pc = "resolveDSN"
    /\ IF open.env = localEnvVal /\ TrimSpace(Getenv(secretNameEnvVar)) = <<>>
       THEN /\ open' = [open EXCEPT !.pc = "sqlOpen",
                                    !.dsn = localDSNFromEnv,
                                    !.secretUsed = localEnvVars,
                                    !.i = 0]
            /\ UNCHANGED <<oret, fetchVars>>
       ELSE LET sel == selectSecretName(open.env)
            IN  IF sel.err # Nil
                THEN /\ OpenReturns(NilDB, sel.err)
                     /\ UNCHANGED fetchVars
                ELSE /\ open' = [open EXCEPT !.pc = "GetSecret",
                                             !.secretUsed = sel.name]
                     /\ fpc' = [fpc EXCEPT ![MainCaller] = "lcsLock"]
                     /\ fname' = [fname EXCEPT ![MainCaller] = sel.name]
                     /\ fdeadline' = [fdeadline EXCEPT ![MainCaller] =
                                         open.ctxDeadline]
                     /\ fcalls' = [fcalls EXCEPT ![MainCaller] = @ + 1]
                     /\ UNCHANGED <<oret, fsecret, fret, requests>>
    /\ UNCHANGED <<procVars, now, cacheVars, onceVars, handles, attempts,
                   sleeps, dsnParses, mainVars>>

resolveDSNThroughCache ==
    /\ open.pc = "resolveDSN"
    /\ IF open.env = localEnvVal
       THEN /\ open' = [open EXCEPT !.pc = "sqlOpen",
                                    !.dsn = localDSNFromEnv,
                                    !.secretUsed = localEnvVars,
                                    !.i = 0]
            /\ UNCHANGED <<oret, fetchVars, provider, secretCache>>
       ELSE LET sel == selectSecretName(open.env)
            IN  IF sel.err # Nil
                THEN /\ OpenReturns(NilDB, sel.err)
                     /\ UNCHANGED <<fetchVars, provider, secretCache>>
                ELSE IF provider.kind = "default"
                THEN /\ open' = [open EXCEPT !.pc = "GetSecret",
                                             !.secretUsed = sel.name]
                     /\ fpc' = [fpc EXCEPT ![MainCaller] = "lcsLock"]
                     /\ fname' = [fname EXCEPT ![MainCaller] = sel.name]
                     /\ fdeadline' = [fdeadline EXCEPT ![MainCaller] =
                                         open.ctxDeadline]
                     /\ fcalls' = [fcalls EXCEPT ![MainCaller] = @ + 1]
                     /\ UNCHANGED <<oret, fsecret, fret, requests, provider,
                                    secretCache>>
                ELSE IF secretCache[sel.name].present
                THEN /\ open' = [open EXCEPT
                                    !.pc = "sqlOpen",
                                    !.dsn = remoteDSN(
                                              secretCache[sel.name].secret),
                                    !.secretUsed = sel.name,
                                    !.i = 0]
                     /\ UNCHANGED <<oret, fetchVars, provider, secretCache>>
                ELSE \E r \in StubGetSecretResults :
                     /\ provider' = [provider EXCEPT !.calls =
                                        Append(@, [open |-> provider.opens,
                                                   name |-> sel.name,
                                                   secret |-> r.secret,
                                                   err |-> r.err])]
                     /\ IF r.err # Nil
                        THEN /\ OpenReturns(
                                  NilDB,
                                  Wrap("failed to load database secret",
                                       r.err))
                             /\ UNCHANGED secretCache
                        ELSE /\ open' = [open EXCEPT
                                            !.pc = "sqlOpen",
                                            !.dsn = remoteDSN(r.secret),
                                            !.secretUsed = sel.name,
                                            !.i = 0]
                             /\ secretCache' =
                                  [secretCache EXCEPT ![sel.name] =
                                     [present |-> TRUE, secret |-> r.secret,
                                      expiresAt |-> now + getSecretCacheTTL,
                                      storedAt |-> now,
                                      ttl |-> getSecretCacheTTL]]
                             /\ UNCHANGED oret
                     /\ UNCHANGED fetchVars
    /\ UNCHANGED <<environ, harness, arg, ret, remoteSecret, hc, now,
                   secretCacheMu, onceVars, handles, attempts, sleeps,
                   dsnParses, mainVars>>

\* resolveDSN, lines 201-225: the local DSN; or the call of
\* provider.GetSecret (line 212), which for the default provider is
\* fetchDBSecret (line 158) and for a substituted provider returns at once
resolveDSN ==
    /\ open.pc = "resolveDSN"
    /\ IF open.env = localEnvVal
       THEN /\ open' = [open EXCEPT !.pc = "sqlOpen",
                                    !.dsn = localDSNFromEnv,
                                    !.secretUsed = localEnvVars,
                                    !.i = 0]
            /\ UNCHANGED <<oret, fetchVars, provider>>
       ELSE LET sel == selectSecretName(open.env)
            IN  IF sel.err # Nil
                THEN /\ OpenReturns(NilDB, sel.err)
                     /\ UNCHANGED <<fetchVars, provider>>
                ELSE IF provider.kind = "default"
                THEN /\ open' = [open EXCEPT !.pc = "GetSecret",
                                             !.secretUsed = sel.name]
                     /\ fpc' = [fpc EXCEPT ![MainCaller] = "lcsLock"]
                     /\ fname' = [fname EXCEPT ![MainCaller] = sel.name]
                     /\ fdeadline' = [fdeadline EXCEPT ![MainCaller] =
                                         open.ctxDeadline]
                     /\ fcalls' = [fcalls EXCEPT ![MainCaller] = @ + 1]
                     /\ UNCHANGED <<oret, fsecret, fret, requests, provider>>
                ELSE \E r \in StubGetSecretResults :
                     /\ provider' = [provider EXCEPT !.calls =
                                        Append(@, [open |-> provider.opens,
                                                   name |-> sel.name,
                                                   secret |-> r.secret,
                                                   err |-> r.err])]
                     /\ IF r.err # Nil
                        THEN OpenReturns(
                                 NilDB,
                                 Wrap("failed to load database secret",
                                      r.err))
                        ELSE /\ open' = [open EXCEPT
                                            !.pc = "sqlOpen",
                                            !.dsn = remoteDSN(r.secret),
                                            !.secretUsed = sel.name,
                                            !.i = 0]
                             /\ UNCHANGED oret
                     /\ UNCHANGED fetchVars
    /\ UNCHANGED <<environ, harness, arg, ret, remoteSecret, hc, now,
                   cacheVars, onceVars, handles, attempts, sleeps, dsnParses,
                   mainVars>>

\* resolveDSN, lines 213-225, and OpenWithProvider, lines 180-182
resolveDSNReturnUnwrapped ==
    /\ open.pc = "GetSecret"
    /\ fpc[MainCaller] = "ret"
    /\ IF fret[MainCaller].err # Nil
       THEN OpenReturns(NilDB, fret[MainCaller].err)
       ELSE /\ open' = [open EXCEPT !.pc = "sqlOpen",
                                    !.dsn = remoteDSN(fret[MainCaller].secret),
                                    !.i = 0]
            /\ UNCHANGED oret
    /\ fpc' = [fpc EXCEPT ![MainCaller] = "idle"]
    /\ fname' = [fname EXCEPT ![MainCaller] = <<>>]
    /\ fsecret' = [fsecret EXCEPT ![MainCaller] = ZeroSecret]
    /\ fret' = [fret EXCEPT ![MainCaller] = NoReturn]
    /\ requests' = [requests EXCEPT ![MainCaller] = 0]
    /\ UNCHANGED <<procVars, now, cacheVars, onceVars, fdeadline, fcalls,
                   handles, attempts, sleeps, dsnParses, mainVars>>

resolveDSNReturn ==
    /\ open.pc = "GetSecret"
    /\ fpc[MainCaller] = "ret"
    /\ IF fret[MainCaller].err # Nil
       THEN OpenReturns(NilDB, Wrap("failed to load database secret",
                                    fret[MainCaller].err))
       ELSE /\ open' = [open EXCEPT !.pc = "sqlOpen",
                                    !.dsn = remoteDSN(fret[MainCaller].secret),
                                    !.i = 0]
            /\ UNCHANGED oret
    /\ fpc' = [fpc EXCEPT ![MainCaller] = "idle"]
    /\ fname' = [fname EXCEPT ![MainCaller] = <<>>]
    /\ fsecret' = [fsecret EXCEPT ![MainCaller] = ZeroSecret]
    /\ fret' = [fret EXCEPT ![MainCaller] = NoReturn]
    /\ requests' = [requests EXCEPT ![MainCaller] = 0]
    /\ UNCHANGED <<procVars, now, cacheVars, onceVars, fdeadline, fcalls,
                   handles, attempts, sleeps, dsnParses, mainVars>>

NewHandle == [state |-> "open", closes |-> 0, pinged |-> FALSE,
              poolCalls |-> 0, pool |-> [maxOpen |-> 0, maxIdle |-> 2,
                                         lifetime |-> 0]]

\* openWithRetry, lines 232-234: sql.Open parses the DSN and, if the driver
\* accepts it, returns a new handle without connecting
sqlOpen ==
    /\ open.pc = "sqlOpen"
    /\ attempts' = Append(attempts, [i |-> open.i, at |-> now])
    /\ IF dsnParses
       THEN /\ handles' = Append(handles, NewHandle)
            /\ open' = [open EXCEPT !.pc = "PingContext",
                                    !.db = Len(handles) + 1, !.err = Nil]
       ELSE /\ open' = [open EXCEPT !.pc = "backoff", !.db = NilDB,
                                    !.err = <<"sql: cannot parse dsn">>]
            /\ UNCHANGED handles
    /\ UNCHANGED <<procVars, now, cacheVars, onceVars, fetchVars, oret,
                   sleeps, dsnParses, mainVars>>

\* what db.PingContext(ctx) can return: with the deadline passed, the
\* context's error; before it, nil or a connection error
PingContextResults ==
    IF DeadlinePassed THEN {<<"context deadline exceeded">>}
    ELSE {Nil, <<"connection refused">>}

\* openWithRetry, lines 235-237
PingContextThenReturn ==
    /\ open.pc = "PingContext"
    /\ \E err \in PingContextResults :
          IF err = Nil
          THEN /\ open' = [open EXCEPT !.pc = "return", !.err = Nil]
               /\ handles' = [handles EXCEPT ![open.db].pinged = TRUE]
          ELSE /\ open' = [open EXCEPT !.pc = "dbClose", !.err = err]
               /\ UNCHANGED handles
    /\ UNCHANGED <<procVars, now, cacheVars, onceVars, fetchVars, oret,
                   attempts, sleeps, dsnParses, mainVars>>

PingContext ==
    /\ open.pc = "PingContext"
    /\ \E err \in PingContextResults :
          IF err = Nil
          THEN /\ open' = [open EXCEPT !.pc = "configureConnectionPool",
                                       !.err = Nil]
               /\ handles' = [handles EXCEPT ![open.db].pinged = TRUE]
          ELSE /\ open' = [open EXCEPT !.pc = "dbClose", !.err = err]
               /\ UNCHANGED handles
    /\ UNCHANGED <<procVars, now, cacheVars, onceVars, fetchVars, oret,
                   attempts, sleeps, dsnParses, mainVars>>

\* openWithRetry, line 238
dbCloseSkipped ==
    /\ open.pc = "dbClose"
    /\ open' = [open EXCEPT !.pc = "backoff"]
    /\ UNCHANGED <<procVars, now, cacheVars, onceVars, fetchVars, oret,
                   handles, attempts, sleeps, dsnParses, mainVars>>

dbClose ==
    /\ open.pc = "dbClose"
    /\ handles' = [handles EXCEPT ![open.db].state = "closed",
                                  ![open.db].closes = @ + 1]
    /\ open' = [open EXCEPT !.pc = "backoff"]
    /\ UNCHANGED <<procVars, now, cacheVars, onceVars, fetchVars, oret,
                   attempts, sleeps, dsnParses, mainVars>>

\* 1 << i
Shl1NoShift(i) == 1

Shl1(i) == 2 ^ i

\* openWithRetry, lines 241-246, and OpenWithProvider, lines 185-187:
\* time.Sleep does not look at ctx
backoffSleepAlways ==
    /\ open.pc = "backoff"
    /\ now' = now + Second * Shl1(open.i)
    /\ sleeps' = Append(sleeps, [i |-> open.i,
                                 dur |-> Second * Shl1(open.i),
                                 at |-> now])
    /\ IF open.i + 1 < 3
       THEN /\ open' = [open EXCEPT !.pc = "sqlOpen", !.i = @ + 1]
            /\ UNCHANGED oret
       ELSE OpenReturns(NilDB,
                        Wrap("failed to open database after retries",
                             open.err))
    /\ UNCHANGED <<procVars, cacheVars, onceVars, fetchVars, handles,
                   attempts, dsnParses, mainVars>>

backoff ==
    /\ open.pc = "backoff"
    /\ IF open.i < 2
       THEN /\ now' = now + Second * Shl1(open.i)
            /\ sleeps' = Append(sleeps, [i |-> open.i,
                                         dur |-> Second * Shl1(open.i),
                                         at |-> now])
       ELSE UNCHANGED <<now, sleeps>>
    /\ IF open.i + 1 < 3
       THEN /\ open' = [open EXCEPT !.pc = "sqlOpen", !.i = @ + 1]
            /\ UNCHANGED oret
       ELSE OpenReturns(NilDB,
                        Wrap("failed to open database after retries",
                             open.err))
    /\ UNCHANGED <<procVars, cacheVars, onceVars, fetchVars, handles,
                   attempts, dsnParses, mainVars>>

\* OpenWithProvider, line 189, and configureConnectionPool, lines 411-422
configureConnectionPool ==
    /\ open.pc = "configureConnectionPool"
    /\ handles' = [handles EXCEPT ![open.db].pool = poolLimits,
                                  ![open.db].poolCalls = @ + 1]
    /\ open' = [open EXCEPT !.pc = "return"]
    /\ UNCHANGED <<procVars, now, cacheVars, onceVars, fetchVars, oret,
                   attempts, sleeps, dsnParses, mainVars>>

\* OpenWithProvider, lines 191-197
OpenReturn ==
    /\ open.pc = "return"
    /\ OpenReturns(open.db, Nil)
    /\ UNCHANGED <<procVars, now, cacheVars, onceVars, fetchVars, handles,
                   attempts, sleeps, dsnParses, mainVars>>

\* one step of Open
Open ==
    \/ OpenWithProvider
    \/ resolveDSN
    \/ resolveDSNReturn
    \/ sqlOpen
    \/ PingContext
    \/ dbClose
    \/ backoff
    \/ configureConnectionPool
    \/ OpenReturn

----------------------------------------------------------------------------
(* HealthCheck                                                             *)

\* a context.Context: nil, or one with a deadline (NoDeadline for none)
\* that may have been cancelled
NilContext == [isNil |-> TRUE, deadline |-> NoDeadline, cancelled |-> FALSE]
Background == [isNil |-> FALSE, deadline |-> NoDeadline, cancelled |-> FALSE]

HealthCheckIdle == [pc |-> "idle", caller |-> NilContext, ctx |-> Background,
                    db |-> NilDB, start |-> 0, probe |-> Nil, err |-> Nil]

\* context.WithTimeout(parent, d): the earlier of the parent's deadline and
\* now + d; cancelled when the parent is
WithTimeoutIgnoringParent(parent, d) ==
    [isNil |-> FALSE, deadline |-> now + d, cancelled |-> FALSE]

WithTimeout(parent, d) ==
    [isNil     |-> FALSE,
     deadline  |-> IF parent.deadline # NoDeadline /\ parent.deadline < now + d
                   THEN parent.deadline
                   ELSE now + d,
     cancelled |-> parent.cancelled]

\* HealthCheck, lines 426-431
HealthCheck ==
    /\ hc.pc = "called"
    /\ LET ctx == IF hc.caller.isNil THEN Background ELSE hc.caller
       IN  hc' = [hc EXCEPT !.pc = "PingContext",
                            !.ctx = WithTimeout(ctx, 2 * Second)]
    /\ UNCHANGED <<environ, harness, arg, ret, remoteSecret, provider, now,
                   cacheVars,
                   onceVars, fetchVars, openVars, mainVars>>

\* what db.PingContext(ctx) returns and when: at once with the context's
\* error if it is cancelled or past its deadline; otherwise the server's
\* answer at some time before the deadline, or the context's error at the
\* deadline
ProbeOutcomes(ctx) ==
    IF ctx.cancelled THEN {[at |-> now, err |-> <<"context canceled">>]}
    ELSE IF ctx.deadline <= now
    THEN {[at |-> now, err |-> <<"context deadline exceeded">>]}
    ELSE {[at |-> t, err |-> e] :
             t \in now..(ctx.deadline - 1),
             e \in {Nil, <<"connection refused">>}}
         \cup {[at |-> ctx.deadline, err |-> <<"context deadline exceeded">>]}

\* HealthCheck, line 433, and the deferred cancel
hcPingContext ==
    /\ hc.pc = "PingContext"
    /\ \E o \in ProbeOutcomes(hc.ctx) :
          /\ now' = o.at
          /\ hc' = [hc EXCEPT !.pc = "returned", !.probe = o.err,
                               !.err = o.err]
    /\ UNCHANGED <<environ, harness, arg, ret, remoteSecret, provider,
                   cacheVars,
                   onceVars, fetchVars, openVars, mainVars>>

\* the contexts HealthCheck is called with: nil, and contexts with no
\* deadline or one up to two seconds after MaxTime, cancelled or not
CallerContexts ==
    {NilContext}
    \cup {[isNil |-> FALSE, deadline |-> d, cancelled |-> c] :
            d \in {NoDeadline} \cup 0..(MaxTime + 2), c \in BOOLEAN}

----------------------------------------------------------------------------
(* main                                                                    *)

\* main, lines 16-21: flags are parsed and NewApplication(ctx) is called
\* with context.Background()
mainStart ==
    /\ harness = "main"
    /\ mpc = "start"
    /\ mpc' = "NewApplication"
    /\ UNCHANGED <<procVars, now, cacheVars, onceVars, fetchVars, openVars,
                   app, exitHow>>

\* NewApplication(ctx) opens the database with store.Open(ctx) and hands
\* the handle, or the error, to main
NewApplication ==
    /\ mpc = "NewApplication"
    /\ open.pc = "idle"
    /\ open' = [open EXCEPT !.pc = "called"]
    /\ mpc' = "Open"
    /\ UNCHANGED <<procVars, now, cacheVars, onceVars, fetchVars, oret,
                   handles, attempts, sleeps, dsnParses, app, exitHow>>

\* main, lines 21-37: panic on an error; otherwise defer app.DB.Close(),
\* set up the routes and the server
mainNewApplicationReturn ==
    /\ mpc = "Open"
    /\ open.pc = "returned"
    /\ IF oret.err # Nil
       THEN /\ mpc' = "exited"
            /\ exitHow' = "panic"
            /\ UNCHANGED app
       ELSE /\ mpc' = "ListenAndServe"
            /\ app' = [DB |-> oret.db, deferred |-> <<"app.DB.Close">>]
            /\ UNCHANGED exitHow
    /\ UNCHANGED <<procVars, now, cacheVars, onceVars, fetchVars, openVars>>

\* what server.ListenAndServe can return: it always returns a non-nil error
ListenAndServeResults == {<<"listen tcp: address already in use">>,
                          <<"accept tcp: use of closed network connection">>}

\* main, lines 39-43: Logger.Fatal prints and calls os.Exit(1), which ends
\* the process without running deferred calls; a return from main runs them
mainListenAndServe ==
    /\ mpc = "ListenAndServe"
    /\ \E err \in ListenAndServeResults :
          IF err # Nil
          THEN /\ exitHow' = "os.Exit(1)"
               /\ UNCHANGED <<handles, app>>
          ELSE /\ exitHow' = "return"
               /\ handles' = [handles EXCEPT ![app.DB].state = "closed",
                                             ![app.DB].closes = @ + 1]
               /\ app' = [app EXCEPT !.deferred = <<>>]
    /\ mpc' = "exited"
    /\ UNCHANGED <<procVars, now, cacheVars, onceVars, fetchVars, open, oret,
                   attempts, sleeps, dsnParses>>

main ==
    \/ mainStart
    \/ NewApplication
    \/ mainNewApplicationReturn
    \/ mainListenAndServe

----------------------------------------------------------------------------
(* The process at start, and the harness of concurrent provider callers    *)

\* the environment with no variable set
EmptyEnviron == [k \in EnvVars |-> <<>>]

SecretNames == {secretNameProd, secretNameStaging}

\* the bundles the secret store holds
BundleProd ==
    [host |-> <<"d","b">>, port |-> <<"5","4","3","2">>,
     dbname |-> <<"g","y","m">>, username |-> <<"u">>,
     password |-> <<"p","@","s","s">>]
BundleStaging ==
    [host |-> <<"s","t","g">>, port |-> <<"5","4","3","2">>,
     dbname |-> <<"g","y","m">>, username |-> <<"a",":","b">>,
     password |-> <<"x","/","y","?">>]

\* what the secret store holds under each name
Unchanged == NoDeadline
StoreAtStart ==
    [n \in SecretNames |->
        [value |-> IF n = secretNameProd THEN BundleProd ELSE BundleStaging,
         changedAt |-> Unchanged]]

\* package-level variables as the Go runtime initializes them (lines
\* 132-139), the clock at 0 and no call in progress
InitProcess ==
    /\ now = 0
    /\ secretCache = [n \in SecretNames |-> NoEntry]
    /\ secretCacheMu = [w |-> None, r |-> {}]
    /\ awsCfg = <<"zero">>
    /\ awsCfgErr = Nil
    /\ awsCfgOnce = [done |-> FALSE, m |-> None]
    /\ fpc = [c \in Callers |-> "idle"]
    /\ fname = [c \in Callers |-> <<>>]
    /\ fdeadline = [c \in Callers |-> NoDeadline]
    /\ fsecret = [c \in Callers |-> ZeroSecret]
    /\ fret = [c \in Callers |-> NoReturn]
    /\ fcalls = [c \in Callers |-> 0]
    /\ requests = [c \in Callers |-> 0]
    /\ initRuns = 0
    /\ cfgReturned = {}
    /\ ret = [fn |-> "none"]
    /\ provider = DefaultProvider
    /\ oret = [db |-> NilDB, err |-> Nil]
    /\ attempts = <<>>
    /\ sleeps = <<>>
    /\ mpc = "start"
    /\ app = [DB |-> NilDB, deferred |-> <<>>]
    /\ exitHow = "running"

\* time passes
TickSweeps ==
    /\ now < MaxTime
    /\ now' = now + 1
    /\ secretCache' = [n \in SecretNames |->
                          IF secretCache[n].present
                             /\ After(now + 1, secretCache[n].expiresAt)
                          THEN NoEntry
                          ELSE secretCache[n]]
    /\ UNCHANGED <<procVars, openVars, mainVars, secretCacheMu, onceVars,
                   fetchVars>>

Tick ==
    /\ now < MaxTime
    /\ now' = now + 1
    /\ UNCHANGED <<procVars, openVars, mainVars, cacheVars, onceVars,
                   fetchVars>>

\* values given to DB_SECRET_CACHE_TTL: unset, one second, two seconds
CacheTTLValues == {<<>>, <<"1","s">>, <<" ","2","s">>}

InitFetch ==
    /\ harness = "fetch"
    /\ \E ttl \in CacheTTLValues :
          environ = [EmptyEnviron EXCEPT !["DB_SECRET_CACHE_TTL"] = ttl]
    /\ dsnParses = TRUE
    /\ arg = [fn |-> "none"]
    /\ remoteSecret = StoreAtStart
    /\ hc = HealthCheckIdle
    /\ open = OpenIdle
    /\ handles = <<>>
    /\ InitProcess

\* a goroutine calls defaultSecretProvider.GetSecret(ctx, name), lines
\* 157-159, with a context that has no deadline
GetSecret(c, name) ==
    /\ harness \in {"fetch", "rotate"}
    /\ fpc[c] = "idle"
    /\ fcalls[c] < MaxCalls
    /\ fcalls' = [fcalls EXCEPT ![c] = @ + 1]
    /\ fpc' = [fpc EXCEPT ![c] = "lcsLock"]
    /\ fname' = [fname EXCEPT ![c] = name]
    /\ fdeadline' = [fdeadline EXCEPT ![c] = NoDeadline]
    /\ fsecret' = [fsecret EXCEPT ![c] = ZeroSecret]
    /\ requests' = [requests EXCEPT ![c] = 0]
    /\ UNCHANGED <<procVars, openVars, mainVars, now, cacheVars,
                   onceVars, fret>>

\* the call returns to the goroutine
GetSecretReturn(c) ==
    /\ harness \in {"fetch", "rotate"}
    /\ fpc[c] = "ret"
    /\ fpc' = [fpc EXCEPT ![c] = "idle"]
    /\ fname' = [fname EXCEPT ![c] = <<>>]
    /\ fsecret' = [fsecret EXCEPT ![c] = ZeroSecret]
    /\ fret' = [fret EXCEPT ![c] = NoReturn]
    /\ requests' = [requests EXCEPT ![c] = 0]
    /\ UNCHANGED <<procVars, openVars, mainVars, now, cacheVars,
                   onceVars, fdeadline, fcalls>>

NextFetch ==
    \/ Tick
    \/ \E c \in FetchCallers, name \in SecretNames : GetSecret(c, name)
    \/ \E c \in FetchCallers : fetchDBSecret(c)
    \/ \E c \in FetchCallers : GetSecretReturn(c)

SpecFetch == InitFetch /\ [][NextFetch]_vars

----------------------------------------------------------------------------
(* Concurrent provider callers of one name whose credentials are rotated   *)

RotatedNames == {secretNameProd}

InitRotate ==
    /\ harness = "rotate"
    /\ \E ttl \in CacheTTLValues :
          environ = [EmptyEnviron EXCEPT !["DB_SECRET_CACHE_TTL"] = ttl]
    /\ dsnParses = TRUE
    /\ arg = [fn |-> "none"]
    /\ remoteSecret = StoreAtStart
    /\ hc = HealthCheckIdle
    /\ open = OpenIdle
    /\ handles = <<>>
    /\ InitProcess

\* the credentials stored under a name are rotated at the secret source
Rotate(name) ==
    /\ harness = "rotate"
    /\ remoteSecret[name].changedAt = Unchanged
    /\ remoteSecret' = [remoteSecret EXCEPT ![name] =
                           [value |-> [@.value EXCEPT !.password =
                                                        <<"n","e","w">>],
                            changedAt |-> now]]
    /\ UNCHANGED <<environ, harness, arg, ret, hc, provider, now, cacheVars,
                   onceVars,
                   fetchVars, openVars, mainVars>>

NextRotate ==
    \/ Tick
    \/ \E name \in RotatedNames : Rotate(name)
    \/ \E c \in FetchCallers, name \in RotatedNames : GetSecret(c, name)
    \/ \E c \in FetchCallers : fetchDBSecret(c)
    \/ \E c \in FetchCallers : GetSecretReturn(c)

SpecRotate == InitRotate /\ [][NextRotate]_vars

----------------------------------------------------------------------------
(* A caller that opens the database repeatedly, with either provider       *)

\* calls of OpenWithProvider the caller makes
MaxOpens == 2

ProviderKinds == {"default", "stub"}

\* values given to APP_ENV
ProviderAppEnvValues == {<<>>, <<"p","r","o","d">>,
                         <<"s","t","a","g","i","n","g">>}

InitProvider ==
    /\ harness = "provider"
    /\ \E e \in ProviderAppEnvValues :
          environ = [EmptyEnviron EXCEPT !["APP_ENV"] = e]
    /\ dsnParses = TRUE
    /\ arg = [fn |-> "none"]
    /\ remoteSecret = StoreAtStart
    /\ hc = HealthCheckIdle
    /\ open = OpenIdle
    /\ handles = <<>>
    /\ InitProcess

\* Open(ctx) (lines 161-163) or OpenWithProvider(ctx, provider) with a
\* substituted provider is called, after any earlier call has returned
callOpenWithProvider(kind) ==
    /\ harness = "provider"
    /\ open.pc \in {"idle", "returned"}
    /\ provider.opens < MaxOpens
    /\ provider' = [provider EXCEPT !.kind = kind, !.opens = @ + 1]
    /\ open' = [OpenIdle EXCEPT !.pc = "called"]
    /\ oret' = [db |-> NilDB, err |-> Nil]
    /\ attempts' = <<>>
    /\ sleeps' = <<>>
    /\ UNCHANGED <<environ, harness, arg, ret, remoteSecret, hc, now,
                   cacheVars, onceVars, fetchVars, handles, dsnParses,
                   mainVars>>

NextProvider ==
    \/ Tick
    \/ \E kind \in ProviderKinds : callOpenWithProvider(kind)
    \/ Open
    \/ fetchDBSecret(MainCaller)

SpecProvider == InitProvider /\ [][NextProvider]_vars

----------------------------------------------------------------------------
(* The process: main opens the database, serves, and ends                  *)

\* values given to APP_ENV, DB_CONNECT_TIMEOUT and DB_MAX_OPEN_CONNS
AppEnvValues         == {<<>>, <<"p","r","o","d">>,
                         <<" ","S","t","a","g","i","n","g">>,
                         <<"d","e","v">>}
ConnectTimeoutValues == {<<>>, <<"1","s">>}
MaxOpenConnsValues   == {<<>>, <<"2">>}
\* values given to DB_SECRET_NAME and POSTGRES_HOST
SecretNameOverrides  == {<<>>, secretNameStaging}
PostgresHostValues   == {<<>>, <<" ","p","g">>}

Init ==
    /\ harness = "main"
    /\ \E e \in AppEnvValues, t \in ConnectTimeoutValues,
          m \in MaxOpenConnsValues, o \in SecretNameOverrides,
          h \in PostgresHostValues :
          environ = [EmptyEnviron EXCEPT !["APP_ENV"] = e,
                                         !["DB_CONNECT_TIMEOUT"] = t,
                                         !["DB_MAX_OPEN_CONNS"] = m,
                                         !["DB_SECRET_NAME"] = o,
                                         !["POSTGRES_HOST"] = h]
    /\ dsnParses \in BOOLEAN
    /\ arg = [fn |-> "none"]
    /\ remoteSecret = StoreAtStart
    /\ hc = HealthCheckIdle
    /\ open = OpenIdle
    /\ handles = <<>>
    /\ InitProcess

Next ==
    \/ Tick
    \/ main
    \/ Open
    \/ fetchDBSecret(MainCaller)

Spec == Init /\ [][Next]_vars


----------------------------------------------------------------------------
(* Direct calls of envLabel, selectSecretName and configureConnectionPool  *)
(* over sets of environments                                               *)

UpperChar(c) ==
    IF \E i \in 1..26 : Lowercase[i] = c
    THEN Uppercase[CHOOSE i \in 1..26 : Lowercase[i] = c]
    ELSE c

\* the spellings of w in upper and lower case
CaseVariants(w) ==
    {[i \in 1..Len(w) |-> IF i \in m THEN UpperChar(w[i]) ELSE w[i]] :
        m \in SUBSET (1..Len(w))}

RECURSIVE SeqsUpTo(_, _)
SeqsUpTo(S, n) ==
    IF n = 0 THEN {<<>>}
    ELSE LET shorter == SeqsUpTo(S, n - 1)
         IN  shorter \cup {Append(s, c) : s \in shorter, c \in S}

\* runs of at most MaxPad blanks and tabs
Pads == SeqsUpTo({" ", "\t"}, MaxPad)

Padded(W) == {l \o w \o r : l \in Pads, w \in W, r \in Pads}

AppEnvWords ==
    {<<>>, <<"l","o">>, <<"l","o","c">>, <<"l","o","c","x">>,
     <<"s","t","a">>, <<"s","t","a","g">>, <<"s","t","a","g","e">>,
     <<"p","r","o">>, <<"p","r","o","d">>, <<"p","r","o","d","s">>,
     <<"d","e","v">>, <<"x","l","o","c">>, <<"l"," ","o","c">>}

\* values given to APP_ENV
RawAppEnvValues == Padded(UNION {CaseVariants(w) : w \in AppEnvWords})

\* values given to DB_SECRET_NAME, and labels given to selectSecretName
SecretNameValues == Padded({<<>>, <<"m","y","/","d","b">>, secretNameProd})
LabelValues == {localEnvVal, stagingEnvVal, prodEnvVal, <<>>, <<"d","e","v">>}

\* strconv.Itoa, to write an integer into the environment
RECURSIVE NatToStr(_)
NatToStr(n) ==
    IF n < 10 THEN <<Digits[n + 1]>>
    ELSE NatToStr(n \div 10) \o <<Digits[(n % 10) + 1]>>

Itoa(n) == IF n < 0 THEN <<"-">> \o NatToStr(0 - n) ELSE NatToStr(n)

\* what DB_MAX_OPEN_CONNS / DB_MAX_IDLE_CONNS can hold, with the integer
\* the configuration then stands for: a number, nothing or something that
\* is no number (the default), a number with blanks around it
ConnsValues(def) ==
    {[s |-> Itoa(n), n |-> n] : n \in -1..MaxConns}
    \cup {[s |-> <<>>, n |-> def], [s |-> <<"t","e","n">>, n |-> def],
          [s |-> <<"1","0","x">>, n |-> def],
          [s |-> <<" ","1"," ">>, n |-> 1], [s |-> <<"+","2">>, n |-> 2]}

\* user names and passwords a bundle can hold: one character of any kind
\* between letters, and two reserved characters in a row
CredentialChars ==
    {":", "/", "?", "#", "[", "]", "@", "!", "$", "&", "'", "(", ")", "*",
     "+", ",", ";", "=", "%", " ", "-", "_", ".", "~", "k", "7"}
CredentialValues ==
    {<<"p", c, "s", "s">> : c \in CredentialChars}
    \cup {<<"@", ":">>, <<"%", "4", "0">>, <<>>}

\* the bundles given to resolveDSN
BundleValues ==
    {[BundleProd EXCEPT !.username = u] : u \in CredentialValues}
    \cup {[BundleStaging EXCEPT !.password = p] : p \in CredentialValues}

\* values given to DB_SSL_MODE
SSLModeValues == Padded({<<>>, <<"d","i","s","a","b","l","e">>})

InitUnit ==
    /\ harness = "unit"
    /\ dsnParses = TRUE
    /\ InitProcess
    /\ \/ /\ \E e \in RawAppEnvValues :
               environ = [EmptyEnviron EXCEPT !["APP_ENV"] = e]
          /\ arg = [fn |-> "envLabel"]
          /\ remoteSecret = StoreAtStart
          /\ hc = HealthCheckIdle
          /\ open = OpenIdle
          /\ handles = <<>>
       \/ /\ \E o \in SecretNameValues :
               environ = [EmptyEnviron EXCEPT !["DB_SECRET_NAME"] = o]
          /\ \E l \in LabelValues : arg = [fn |-> "selectSecretName", env |-> l]
          /\ remoteSecret = StoreAtStart
          /\ hc = HealthCheckIdle
          /\ open = OpenIdle
          /\ handles = <<>>
       \/ /\ \E a \in ConnsValues(10), b \in ConnsValues(5) :
               /\ environ = [EmptyEnviron EXCEPT
                                !["DB_MAX_OPEN_CONNS"] = a.s,
                                !["DB_MAX_IDLE_CONNS"] = b.s]
               /\ arg = [fn |-> "configureConnectionPool",
                         maxOpen |-> a.n, maxIdle |-> b.n]
          /\ remoteSecret = StoreAtStart
          /\ hc = HealthCheckIdle
          /\ open = [OpenIdle EXCEPT !.pc = "configureConnectionPool",
                                     !.db = 1]
          /\ handles = <<[NewHandle EXCEPT !.pinged = TRUE]>>
       \/ /\ \E m \in SSLModeValues :
               environ = [EmptyEnviron EXCEPT !["DB_SSL_MODE"] = m]
          /\ \E l \in {stagingEnvVal, prodEnvVal, localEnvVal} :
               /\ arg = [fn |-> "resolveDSN", env |-> l]
               /\ open = [OpenIdle EXCEPT !.pc = "resolveDSN", !.env = l]
          /\ \E b \in BundleValues :
               remoteSecret = [n \in SecretNames |->
                                 [value |-> b, changedAt |-> Unchanged]]
          /\ hc = HealthCheckIdle
          /\ handles = <<>>
       \/ /\ environ = EmptyEnviron
          /\ arg = [fn |-> "HealthCheck"]
          /\ remoteSecret = StoreAtStart
          /\ \E ctx \in CallerContexts :
               hc = [HealthCheckIdle EXCEPT !.pc = "called", !.caller = ctx,
                                            !.db = 1, !.start = now]
          /\ open = OpenIdle
          /\ handles = <<[NewHandle EXCEPT !.pinged = TRUE]>>

callEnvLabel ==
    /\ harness = "unit"
    /\ arg.fn = "envLabel"
    /\ ret.fn = "none"
    /\ ret' = [fn |-> "envLabel", label |-> envLabel.label,
               raw |-> envLabel.raw, err |-> envLabel.err]
    /\ UNCHANGED <<environ, harness, arg, remoteSecret, hc, provider, now,
                   cacheVars,
                   onceVars, fetchVars, openVars, mainVars>>

callSelectSecretName ==
    /\ harness = "unit"
    /\ arg.fn = "selectSecretName"
    /\ ret.fn = "none"
    /\ ret' = [fn |-> "selectSecretName",
               name |-> selectSecretName(arg.env).name,
               err |-> selectSecretName(arg.env).err]
    /\ UNCHANGED <<environ, harness, arg, remoteSecret, hc, provider, now,
                   cacheVars,
                   onceVars, fetchVars, openVars, mainVars>>

NextUnit ==
    \/ callEnvLabel
    \/ callSelectSecretName
    \/ configureConnectionPool
    \/ resolveDSN
    \/ fetchDBSecret(MainCaller)
    \/ resolveDSNReturn
    \/ HealthCheck
    \/ hcPingContext

SpecUnit == InitUnit /\ [][NextUnit]_vars

----------------------------------------------------------------------------
(* CLAIMS                                                                  *)
(***************************************************************************)

\* the step in which caller c's loadCachedSecret decides hit or miss
LookupStep(c) == fpc[c] = "lcsCheck" /\ fpc'[c] # "lcsCheck"

\* C1: a bundle stored at time T with TTL D is returned by every lookup at
\* a time t with T <= t < T+D, and every lookup at a time t >= T+D
\* (t = T+D included) reports a miss, after which fetchDBSecret goes on to
\* fetch the secret remotely.
C1_TTLWindow ==
    [][\A c \in Callers :
          LookupStep(c) /\ secretCache[fname[c]].present =>
             LET entry == secretCache[fname[c]]
                 T == entry.storedAt
                 D == entry.ttl
             IN  /\ (T <= now /\ now < T + D) =>
                       /\ fpc'[c] = "ret"
                       /\ fret'[c].err = Nil
                       /\ fret'[c].secret = entry.secret
                 /\ now >= T + D =>
                       /\ fpc'[c] = "onceCheck"
                       /\ ~secretCache'[fname[c]].present]_vars

\* some caller has come back from awsConfig (line 344)
ReturnedFromAwsConfig ==
    \/ cfgReturned # {}
    \/ \E c \in Callers : fpc[c] = "cfgRead"

\* C4: with concurrent callers of awsConfig, LoadDefaultConfig is executed
\* at most once, no caller comes back from awsConfig before that execution
\* has completed, and all callers get the same (config, error) pair.
C4_RunOnce ==
    /\ initRuns <= 1
    /\ Cardinality(cfgReturned) <= 1
    /\ cfgReturned \subseteq {<<awsCfg, awsCfgErr>>}
    /\ ReturnedFromAwsConfig =>
          /\ initRuns = 1
          /\ awsCfgOnce.done
          /\ \A c \in Callers : fpc[c] \notin {"onceRun", "onceExit"}

\* two goroutines, each in its first call, are both past awsConfig, one
\* having waited for the other's initialization
C4_Witness ==
    /\ harness = "fetch"
    /\ initRuns = 1
    /\ Cardinality(cfgReturned) = 1
    /\ \A c \in FetchCallers :
          fcalls[c] = 1 /\ fpc[c] \in {"getSecretValue", "ret"}
               /\ ~fret[c].hit

\* C5: once the first remote-config initialization has failed, every
\* fetchDBSecret call that misses the cache returns that initialization
\* error, wrapped; initialization is not run again and no remote secret
\* request is issued, for the rest of the process.
C5_StickyInitError ==
    /\ [](awsCfgErr # Nil =>
            /\ initRuns = 1
            /\ \A c \in Callers :
                  /\ fpc[c] \notin {"onceRun", "onceExit", "getSecretValue",
                                    "scsLock", "scsStore"}
                  /\ requests[c] = 0
                  /\ fpc[c] = "ret" =>
                        fret[c] = [secret |-> ZeroSecret,
                                   err |-> Wrap("load aws config", awsCfgErr),
                                   hit |-> FALSE])
    /\ [][awsCfgErr # Nil =>
             awsCfgErr' = awsCfgErr /\ initRuns' = initRuns]_vars

\* a goroutine's second call returns the error of the initialization that
\* failed during an earlier call
C5_Witness ==
    /\ harness = "fetch"
    /\ awsCfgErr # Nil
    /\ \E c \in FetchCallers :
          /\ fcalls[c] = 2
          /\ fpc[c] = "ret"
          /\ fret[c].err = Wrap("load aws config", awsCfgErr)

\* openWithRetry has returned its terminal error to OpenWithProvider
RetriesExhausted ==
    /\ open.pc = "returned"
    /\ oret.err # Nil
    /\ Head(oret.err) = "failed to open database after retries"

\* C2: when every attempt fails (sql.Open or the probe), openWithRetry
\* makes exactly 3 attempts, sleeps exactly twice, 1s after the first and
\* 2s after the second attempt and not after the third, and returns an
\* error and no handle.
C2_ThreeAttemptsTwoSleeps ==
    /\ Len(attempts) <= 3
    /\ Len(sleeps) <= 2
    /\ RetriesExhausted =>
          /\ [k \in 1..Len(attempts) |-> attempts[k].i] = <<0, 1, 2>>
          /\ [k \in 1..Len(sleeps) |-> sleeps[k].dur] = <<1 * Second, 2 * Second>>
          /\ \A k \in 1..2 :
                /\ attempts[k].at <= sleeps[k].at
                /\ sleeps[k].at + sleeps[k].dur <= attempts[k + 1].at
          /\ oret.db = NilDB

\* three probes failed, each on its own handle, and the error came back
C2_Witness ==
    /\ RetriesExhausted
    /\ Len(handles) = 3
    /\ Len(sleeps) = 2

\* C3: when the retry loop was entered before the deadline of Open's
\* context, then once that deadline has passed openWithRetry starts no
\* further attempt and no further backoff sleep.
C3_DeadlineIsTerminal ==
    (attempts # <<>> /\ attempts[1].at < open.ctxDeadline) =>
       /\ \A k \in 2..Len(attempts) : attempts[k].at < open.ctxDeadline
       /\ \A k \in 1..Len(sleeps) : sleeps[k].at < open.ctxDeadline

OpenHandles == {h \in 1..Len(handles) : handles[h].state = "open"}

\* C6: while openWithRetry runs at most one handle is open; when the next
\* attempt is about to open a handle, the handle of the failed probe has
\* been closed; and when openWithRetry returns an error, no handle it
\* opened is left open.
C6_ResourceRelease ==
    /\ Cardinality(OpenHandles) <= 1
    /\ open.pc \in {"sqlOpen", "backoff"} => OpenHandles = {}
    /\ RetriesExhausted => OpenHandles = {}

\* the second attempt has its handle open and the first attempt's handle,
\* whose probe failed, is closed
C6_Witness ==
    /\ open.pc = "PingContext"
    /\ Len(handles) = 2
    /\ handles[1].state = "closed"
    /\ handles[2].state = "open"

\* C7: on every path by which main ends after NewApplication succeeded,
\* Close has been called on the database handle exactly once.
C7_ClosedOnceAtExit ==
    mpc = "exited" /\ app.DB # NilDB => handles[app.DB].closes = 1

----------------------------------------------------------------------------
(* Classification, secret name selection and pool limits, under SpecUnit   *)

\* s with the white space at both of its ends removed, said without the
\* scanning loops of TrimSpace: the one slice of s that has only white
\* space before and after it and none at its own ends
StrippedOf(s) ==
    LET ends == {e \in (1..(Len(s) + 1)) \X (0..Len(s)) :
                    /\ e[1] <= e[2] + 1
                    /\ \A k \in 1..Len(s) :
                           (k < e[1] \/ k > e[2]) => IsSpace(s[k])
                    /\ e[1] <= e[2] => /\ ~IsSpace(s[e[1]])
                                       /\ ~IsSpace(s[e[2]])}
        e == CHOOSE e \in ends : TRUE
    IN  SubSeq(s, e[1], e[2])

\* the case-folded form of s starts with the lower-case word p
FoldedStartsWith(s, p) ==
    /\ Len(s) >= Len(p)
    /\ \A k \in 1..Len(p) : s[k] \in {p[k], UpperChar(p[k])}

\* the label the classification rules give the string s
Classified(s) ==
    /\ FoldedStartsWith(s, <<"l","o","c">>)
           => ret.label = <<"l","o","c","a","l">> /\ ret.err = Nil
    /\ FoldedStartsWith(s, <<"s","t","a","g">>)
           => ret.label = <<"s","t","a","g","i","n","g">> /\ ret.err = Nil
    /\ FoldedStartsWith(s, <<"p","r","o","d">>)
           => ret.label = <<"p","r","o","d">> /\ ret.err = Nil
    /\ s = <<>> => ret.label = <<"l","o","c","a","l">> /\ ret.err = Nil
    /\ (/\ s # <<>>
        /\ ~FoldedStartsWith(s, <<"l","o","c">>)
        /\ ~FoldedStartsWith(s, <<"s","t","a","g">>)
        /\ ~FoldedStartsWith(s, <<"p","r","o","d">>))
           => ret.err # Nil /\ ret.label = <<>>

\* C8, as stated: envLabel classifies the raw APP_ENV string. A string whose
\* case-folded form starts with loc / stag / prod yields local / staging /
\* prod, the empty string yields local, and every other non-empty string,
\* one of white space only or a label preceded by white space included,
\* yields an error and no label.
C8_RawClassification ==
    ret.fn = "envLabel" => Classified(environ["APP_ENV"])

\* C8, amended: envLabel classifies the APP_ENV string with the white space
\* at its ends removed. If what remains starts, case-folded, with loc / stag
\* / prod the label is local / staging / prod; if nothing remains (the
\* string is empty or all white space) the label is local; anything else
\* yields an error and no label.
C8_TrimmedClassification ==
    ret.fn = "envLabel" => Classified(StrippedOf(environ["APP_ENV"]))

\* envLabel has returned prod for a value with white space before the label
C8_Witness ==
    /\ ret.fn = "envLabel"
    /\ environ["APP_ENV"] # <<>>
    /\ IsSpace(environ["APP_ENV"][1])
    /\ ret.label = <<"p","r","o","d">>
    /\ ret.err = Nil

\* C9: for every pair of configured integers (maxOpen, maxIdle),
\* configureConnectionPool applies an idle limit that is at most the applied
\* open limit: the applied idle limit is maxOpen when maxIdle > maxOpen and
\* maxIdle otherwise, and the applied open limit is always maxOpen.
C9_PoolClamp ==
    (harness = "unit" /\ arg.fn = "configureConnectionPool"
        /\ open.pc = "return")
        => LET applied == handles[open.db].pool
           IN  /\ applied.maxIdle <= applied.maxOpen
               /\ applied.maxOpen = arg.maxOpen
               /\ applied.maxIdle = IF arg.maxIdle > arg.maxOpen
                                    THEN arg.maxOpen
                                    ELSE arg.maxIdle

\* the pool was configured with an idle limit above the open limit and the
\* open limit was applied to both
C9_Witness ==
    /\ harness = "unit"
    /\ arg.fn = "configureConnectionPool"
    /\ open.pc = "return"
    /\ arg.maxIdle > arg.maxOpen
    /\ handles[open.db].poolCalls = 1
    /\ handles[open.db].pool.maxIdle = arg.maxOpen

\* C10: with a non-blank DB_SECRET_NAME selectSecretName returns the
\* override (its text without surrounding white space) for every label;
\* with the override unset or blank it returns the staging identifier for
\* label staging, a different production identifier for label prod, and the
\* error "no secret name configured for env" with no name for every other
\* label.
C10_SecretNameSelection ==
    ret.fn = "selectSecretName"
        => LET override == environ["DB_SECRET_NAME"]
               blank == \A k \in 1..Len(override) : IsSpace(override[k])
           IN  IF ~blank
               THEN ret.err = Nil /\ ret.name = StrippedOf(override)
               ELSE CASE arg.env = <<"s","t","a","g","i","n","g">> ->
                           /\ ret.err = Nil
                           /\ ret.name = secretNameStaging
                           /\ ret.name # secretNameProd
                      [] arg.env = <<"p","r","o","d">> ->
                           /\ ret.err = Nil
                           /\ ret.name = secretNameProd
                           /\ ret.name # secretNameStaging
                      [] OTHER ->
                           /\ ret.err = <<"no secret name configured for env">>
                           /\ ret.name = <<>>

\* the override was returned although the label is local, and the staging
\* identifier is the one selectSecretName falls back to for staging
C10_Witness ==
    /\ ret.fn = "selectSecretName"
    /\ arg.env = <<"l","o","c","a","l">>
    /\ environ["DB_SECRET_NAME"] = <<" ","m","y","/","d","b">>
    /\ ret.name = <<"m","y","/","d","b">>
    /\ ret.err = Nil

----------------------------------------------------------------------------
(* The remote DSN, under SpecUnit                                          *)

\* RFC 3986, section 2.2: gen-delims and sub-delims
ReservedURIChars ==
    {":", "/", "?", "#", "[", "]", "@",
     "!", "$", "&", "'", "(", ")", "*", "+", ",", ";", "="}

\* the character with a two-digit hexadecimal ASCII code
CharOfCode(h) ==
    CASE h = <<"2","0">> -> " " [] h = <<"2","1">> -> "!"
      [] h = <<"2","3">> -> "#" [] h = <<"2","4">> -> "$"
      [] h = <<"2","5">> -> "%" [] h = <<"2","6">> -> "&"
      [] h = <<"2","7">> -> "'" [] h = <<"2","8">> -> "("
      [] h = <<"2","9">> -> ")" [] h = <<"2","A">> -> "*"
      [] h = <<"2","B">> -> "+" [] h = <<"2","C">> -> ","
      [] h = <<"2","F">> -> "/" [] h = <<"3","A">> -> ":"
      [] h = <<"3","B">> -> ";" [] h = <<"3","D">> -> "="
      [] h = <<"3","F">> -> "?" [] h = <<"4","0">> -> "@"
      [] h = <<"5","B">> -> "[" [] h = <<"5","D">> -> "]"
      [] OTHER -> "invalid"

\* what a reader of the DSN decodes a credential to
RECURSIVE Unescape(_)
Unescape(s) ==
    IF s = <<>> THEN <<>>
    ELSE IF Head(s) = "%"
         THEN IF Len(s) < 3 THEN <<"invalid">>
              ELSE <<CharOfCode(SubSeq(s, 2, 3))>>
                      \o Unescape(SubSeq(s, 4, Len(s)))
         ELSE IF Head(s) = "+" THEN <<" ">> \o Unescape(Tail(s))
         ELSE <<Head(s)>> \o Unescape(Tail(s))

\* where ch first stands in s, or 0
FirstIndex(s, ch) ==
    IF \E k \in 1..Len(s) : s[k] = ch
    THEN CHOOSE k \in 1..Len(s) :
            s[k] = ch /\ \A m \in 1..(k - 1) : s[m] # ch
    ELSE 0

From(s, k) == SubSeq(s, k, Len(s))

\* resolveDSN has returned a DSN built from a bundle of the secret store
RemoteDSNResolved ==
    /\ open.pc = "sqlOpen"
    /\ open.env # <<"l","o","c","a","l">>
    /\ attempts = <<>>

\* a credential as the DSN holds it: no reserved URI character is left in
\* it as it is (every one is written as % and its code; a "+" in e is the
\* form url.QueryEscape gives a blank), and e decodes to the credential
Escaped(e, credential) ==
    /\ \A k \in 1..Len(e) : e[k] \in ReservedURIChars => e[k] = "+"
    /\ Unescape(e) = credential
    /\ Cardinality({k \in 1..Len(e) : e[k] = "+"})
         = Cardinality({k \in 1..Len(credential) : credential[k] = " "})

\* C11: for a non-local label and any bundle, the DSN resolveDSN returns is
\* postgresql://U:P@host:port/database?sslmode=M where U and P are the
\* bundle's username and password with every reserved URI character
\* percent-encoded, host, port and database are the bundle's, unchanged,
\* and M is "require" unless DB_SSL_MODE holds something else.
C11_RemoteDSNEscaped ==
    RemoteDSNResolved
        => LET b      == remoteSecret[open.secretUsed].value
               scheme == <<"p","o","s","t","g","r","e","s","q","l",":","/","/">>
               rest1  == From(open.dsn, Len(scheme) + 1)
               i      == FirstIndex(rest1, ":")
               U      == SubSeq(rest1, 1, i - 1)
               rest2  == From(rest1, i + 1)
               j      == FirstIndex(rest2, "@")
               P      == SubSeq(rest2, 1, j - 1)
               rest3  == From(rest2, j + 1)
               over   == StrippedOf(environ["DB_SSL_MODE"])
               M      == IF over = <<>> THEN <<"r","e","q","u","i","r","e">>
                         ELSE over
           IN  /\ SubSeq(open.dsn, 1, Len(scheme)) = scheme
               /\ i > 0
               /\ j > 0
               /\ Escaped(U, b.username)
               /\ Escaped(P, b.password)
               /\ rest3 = b.host \o <<":">> \o b.port \o <<"/">> \o b.dbname
                             \o <<"?","s","s","l","m","o","d","e","=">> \o M

\* the password p@ss has been written into the DSN as p%40ss
C11_Witness ==
    /\ RemoteDSNResolved
    /\ remoteSecret[open.secretUsed].value.password = <<"p","@","s","s">>
    /\ remoteSecret[open.secretUsed].value.username = <<"a",":","b">>
    /\ open.dsn = <<"p","o","s","t","g","r","e","s","q","l",":","/","/",
                    "a","%","3","A","b",":","p","%","4","0","s","s","@",
                    "s","t","g",":","5","4","3","2","/","g","y","m",
                    "?","s","s","l","m","o","d","e","=",
                    "r","e","q","u","i","r","e">>

----------------------------------------------------------------------------
(* HealthCheck, under SpecUnit                                             *)

\* the probe ended with the error of its context, not with an answer
CutShort == hc.probe \in {<<"context deadline exceeded">>,
                          <<"context canceled">>}

\* C12, as stated: HealthCheck probes under a fixed 2 second timeout that
\* does not depend on the caller's context. For every caller context (nil,
\* later deadline, earlier deadline, cancelled) the probe has until 2
\* seconds after the call, and no longer, to answer, and HealthCheck returns
\* exactly the probe's result.
C12_FixedTimeout ==
    /\ hc.pc = "PingContext"
          => hc.ctx.deadline = hc.start + 2 /\ ~hc.ctx.cancelled
    /\ hc.pc = "returned"
          => /\ now <= hc.start + 2
             /\ CutShort => now = hc.start + 2
             /\ hc.err = hc.probe

\* C12, amended: HealthCheck probes under a context derived from the
\* caller's. The probe has until the earlier of the caller's deadline and 2
\* seconds after the call (2 seconds after the call for a nil context or
\* one without deadline), fails at once if the caller's context is already
\* cancelled or expired, never runs past 2 seconds after the call, and
\* HealthCheck returns exactly the probe's result.
C12_DerivedTimeout ==
    LET limit == IF hc.caller.deadline # NoDeadline
                    /\ hc.caller.deadline < hc.start + 2
                 THEN hc.caller.deadline
                 ELSE hc.start + 2
        dead  == hc.caller.cancelled \/ limit <= hc.start
    IN  /\ hc.pc = "PingContext"
              => /\ hc.ctx.deadline = limit
                 /\ hc.ctx.cancelled = hc.caller.cancelled
        /\ hc.pc = "returned"
              => /\ now <= hc.start + 2
                 /\ now <= IF dead THEN hc.start ELSE limit
                 /\ dead => CutShort
                 /\ (CutShort /\ ~dead) => now = limit
                 /\ hc.err = hc.probe

\* a probe under a caller deadline of 1 second was cut short after 1 second
C12_Witness ==
    /\ hc.pc = "returned"
    /\ ~hc.caller.isNil
    /\ ~hc.caller.cancelled
    /\ hc.caller.deadline = hc.start + 1
    /\ now = hc.start + 1
    /\ hc.err = <<"context deadline exceeded">>

----------------------------------------------------------------------------
(* Locking of the secret cache, under SpecFetch                            *)

\* caller c is inside the critical section of loadCachedSecret (lookup and
\* eviction) or of storeCachedSecret
InLookup(c) == fpc[c] = "lcsCheck"
InStore(c)  == fpc[c] = "scsStore"

\* C13, as stated: lookups take a shared lock, so that a second
\* loadCachedSecret call enters the lookup critical section while a first
\* one is inside it; a store is inside it alone, under the exclusive lock.
C13_SharedLookups ==
    /\ \A c \in Callers :
          InLookup(c) => c \in secretCacheMu.r /\ secretCacheMu.w = None
    /\ \A c, d \in Callers :
          (c # d /\ InLookup(c) /\ fpc[d] = "lcsLock") => ENABLED lcsLock(d)
    /\ \A c \in Callers :
          InStore(c) => /\ secretCacheMu.w = c
                        /\ secretCacheMu.r = {}
                        /\ \A d \in Callers \ {c} : ~InLookup(d) /\ ~InStore(d)

\* C13, amended: lookups, evictions and stores all take the exclusive lock:
\* at most one caller is inside any critical section of the cache at a time,
\* it holds the mutex as its writer, and two loadCachedSecret calls are never
\* inside the lookup critical section together.
C13_ExclusiveLocking ==
    /\ Cardinality({c \in Callers : InLookup(c) \/ InStore(c)}) <= 1
    /\ \A c \in Callers :
          (InLookup(c) \/ InStore(c))
              => secretCacheMu.w = c /\ secretCacheMu.r = {}
    /\ (\A c \in Callers : ~InLookup(c) /\ ~InStore(c))
          => secretCacheMu.w = None /\ secretCacheMu.r = {}

\* one goroutine is inside the lookup while the other waits to enter it for
\* the same name
C13_Witness ==
    /\ InLookup("g1")
    /\ fpc["g2"] = "lcsLock"
    /\ fname["g1"] = fname["g2"]
    /\ ~ENABLED lcsLock("g2")

----------------------------------------------------------------------------
(* Cache hits, under SpecFetch                                             *)

\* caller c leaves the lookup having found an entry for its name that
\* loadCachedSecret does not take as expired
FindsUnexpired(c) ==
    /\ fpc[c] = "lcsCheck"
    /\ fpc'[c] # "lcsCheck"
    /\ secretCache[fname[c]].present
    /\ now <= secretCache[fname[c]].expiresAt

\* C14: when fetchDBSecret finds an unexpired entry for the name it returns
\* that entry's bundle with no error, and the call neither initializes the
\* remote-config singleton, nor issues a remote secret request, nor changes
\* the entry or its expiry.
C14_HitIsNetworkFree ==
    /\ [][\A c \in Callers :
            FindsUnexpired(c)
                => /\ fpc'[c] = "ret"
                   /\ fret'[c].err = Nil
                   /\ fret'[c].secret = secretCache[fname[c]].secret
                   /\ requests'[c] = 0
                   /\ UNCHANGED <<secretCache, awsCfg, awsCfgErr, awsCfgOnce,
                                  initRuns, cfgReturned>>]_vars
    /\ [](\A c \in Callers :
            (fpc[c] = "ret" /\ fret[c].hit) => requests[c] = 0)

\* the second goroutine was served the bundle the first one had cached, with
\* the singleton initialized once and no request of its own
C14_Witness ==
    /\ fpc["g2"] = "ret"
    /\ fret["g2"].hit
    /\ fret["g2"].secret = secretCache[fname["g2"]].secret
    /\ secretCache[fname["g2"]].present
    /\ requests["g2"] = 0
    /\ fcalls["g2"] = 1
    /\ initRuns = 1

----------------------------------------------------------------------------
(* Staleness after a rotation, under SpecRotate                            *)

\* caller c's call returns, from the cache, a bundle that the secret store
\* no longer holds under the name
ServesOldBundle(c) ==
    /\ fpc[c] = "lcsCheck"
    /\ fpc'[c] = "ret"
    /\ fret'[c].hit
    /\ remoteSecret[fname[c]].changedAt # Unchanged
    /\ fret'[c].secret # remoteSecret[fname[c]].value

\* C15: for any interleaving of concurrent callers of the default provider,
\* once the secret store's value for a name has changed, GetSecret does not
\* return the old bundle from the cache later than one TTL after the change.
C15_BoundedStaleness ==
    [][\A c \in FetchCallers :
          ServesOldBundle(c)
              => now <= remoteSecret[fname[c]].changedAt + getSecretCacheTTL]_vars

----------------------------------------------------------------------------
(* The retry schedule, under Spec                                          *)

\* openWithRetry has had an attempt whose open and probe both succeeded
AttemptSucceeded ==
    /\ open.pc \in {"configureConnectionPool", "return", "returned"}
    /\ open.db # NilDB

\* C16: the first attempt whose open and probe both succeed returns its
\* handle with no later attempt and no later sleep; the k-th sleep follows
\* the failed attempt with index k - 1, which is 0 or 1, and lasts 1 second
\* after index 0 and 2 seconds after index 1; there is no sleep before the
\* first attempt, after a success, or after the attempt with index 2.
C16_RetrySchedule ==
    /\ [](/\ Len(sleeps) <= 2
          /\ Len(sleeps) <= Len(attempts)
          /\ \A k \in 1..Len(sleeps) :
                /\ sleeps[k].i = k - 1
                /\ attempts[k].i = k - 1
                /\ sleeps[k].at >= attempts[k].at
                /\ sleeps[k].dur = IF k = 1 THEN 1 ELSE 2
                /\ k < Len(attempts)
                      => attempts[k + 1].at >= sleeps[k].at + sleeps[k].dur
          /\ \A k \in 1..Len(attempts) : attempts[k].i = k - 1
          /\ AttemptSucceeded
                => /\ Len(sleeps) = Len(attempts) - 1
                   /\ open.db = Len(handles)
                   /\ handles[open.db].pinged
                   /\ handles[open.db].state = "open"
                   /\ open.pc = "returned" => oret.db = open.db /\ oret.err = Nil)
    /\ [][AttemptSucceeded => UNCHANGED <<attempts, sleeps>>]_vars

\* the second attempt succeeded after one sleep of one second and its handle
\* was returned
C16_Witness ==
    /\ open.pc = "returned"
    /\ oret.db = 2
    /\ oret.err = Nil
    /\ Len(attempts) = 2
    /\ Len(sleeps) = 1
    /\ sleeps[1].dur = 1
    /\ handles[1].state = "closed"

----------------------------------------------------------------------------
(* Racing fetches of one name, under SpecRotate                            *)

\* caller c's call has returned a bundle that it did not get from the cache
ReturnedOwnFetch(c) == fpc[c] = "ret" /\ fret[c].err = Nil /\ ~fret[c].hit

\* C17: two callers racing on the same uncached or just expired name can
\* both miss and both issue a remote fetch (C17_Witness). Whenever a caller
\* stores, the cache's entry for the name becomes the bundle that caller
\* fetched, whatever another caller stored before, and no other entry
\* changes; every caller that fetched returns the bundle of its own single
\* request.
C17_NoSingleFlight ==
    /\ [][\A c \in Callers :
            /\ (fpc[c] = "getSecretValue" /\ fpc'[c] = "scsLock")
                  => fsecret'[c] = remoteSecret[fname[c]].value
            /\ (fpc[c] = "scsStore" /\ fpc'[c] = "ret")
                  => /\ secretCache'[fname[c]].present
                     /\ secretCache'[fname[c]].secret = fsecret[c]
                     /\ \A n \in SecretNames \ {fname[c]} :
                           secretCache'[n] = secretCache[n]
                     /\ fret'[c].secret = fsecret[c]]_vars
    /\ [](\A c \in Callers :
            ReturnedOwnFetch(c)
                => requests[c] = 1 /\ fret[c].secret = fsecret[c])

\* both goroutines missed on the same name in their first calls, each
\* issued its own request and returned its own bundle (they differ: the
\* secret was rotated in between), and the cache holds the bundle of g2,
\* which stored last
C17_Witness ==
    /\ ReturnedOwnFetch("g1")
    /\ ReturnedOwnFetch("g2")
    /\ fcalls["g1"] = 1
    /\ fcalls["g2"] = 1
    /\ fname["g1"] = fname["g2"]
    /\ requests["g1"] = 1
    /\ requests["g2"] = 1
    /\ fret["g1"].secret # fret["g2"].secret
    /\ secretCache[fname["g1"]].present
    /\ secretCache[fname["g1"]].secret = fret["g2"].secret
    /\ fret["g2"].secret = remoteSecret[fname["g2"]].value

----------------------------------------------------------------------------
(* Failures of secret resolution, under Spec                               *)

\* the provider's GetSecret call made by resolveDSN has failed and
\* resolveDSN takes its result
GetSecretFailed ==
    /\ open.pc = "GetSecret"
    /\ fpc[MainCaller] = "ret"
    /\ fret[MainCaller].err # Nil
    /\ open'.pc # "GetSecret"

\* Open has returned the error of a failed secret resolution
SecretErrorReturned ==
    /\ open.pc = "returned"
    /\ oret.err # Nil
    /\ Head(oret.err) = "failed to load database secret"

\* C18: one GetSecret call of the default provider issues at most one
\* remote secret request; when it fails (config load failure, fetch
\* failure, missing payload, malformed JSON) Open returns no handle and the
\* error "failed to load database secret" wrapping the provider's error,
\* having made no connection attempt and configured no pool.
C18_SecretFailureNotRetried ==
    /\ [](\A c \in Callers : requests[c] <= 1)
    /\ [][GetSecretFailed
            => /\ Head(fret[MainCaller].err) \in
                     {"load aws config", "get secret value",
                      "secret value missing string payload",
                      "decode secret json"}
               /\ open'.pc = "returned"
               /\ oret'.db = NilDB
               /\ oret'.err = <<"failed to load database secret">>
                                 \o fret[MainCaller].err]_vars
    /\ [](SecretErrorReturned
            => /\ oret.db = NilDB
               /\ fcalls[MainCaller] = 1
               /\ attempts = <<>>
               /\ sleeps = <<>>
               /\ handles = <<>>)

\* Open has returned the wrapped error of a malformed secret payload
\* without having tried to connect
C18_Witness ==
    /\ SecretErrorReturned
    /\ oret.err = <<"failed to load database secret", "decode secret json",
                    "invalid character">>
    /\ attempts = <<>>
    /\ handles = <<>>

----------------------------------------------------------------------------
(* Configuration errors, under Spec                                        *)

\* APP_ENV holds a value that is none of the labels
AppEnvRejected ==
    LET t == StrippedOf(environ["APP_ENV"])
    IN  /\ t # <<>>
        /\ ~FoldedStartsWith(t, <<"l","o","c">>)
        /\ ~FoldedStartsWith(t, <<"s","t","a","g">>)
        /\ ~FoldedStartsWith(t, <<"p","r","o","d">>)

\* Open has returned the error of envLabel or of selectSecretName
ConfigErrorReturned ==
    /\ open.pc = "returned"
    /\ oret.err # Nil
    /\ Head(oret.err) \in {"unknown APP_ENV value",
                           "no secret name configured for env"}

\* no GetSecret call, no connection attempt, no sleep, no pool configured
NothingAttempted ==
    /\ fcalls[MainCaller] = 0
    /\ initRuns = 0
    /\ \A c \in Callers : requests[c] = 0
    /\ attempts = <<>>
    /\ sleeps = <<>>
    /\ handles = <<>>

\* C19: when envLabel rejects APP_ENV, or selectSecretName has no secret
\* for the label, OpenWithProvider returns that error, unwrapped, and no
\* handle, having made no GetSecret call, no connection attempt, no backoff
\* sleep and no pool configuration.
C19_ConfigErrorShortCircuits ==
    /\ (AppEnvRejected /\ open.pc \notin {"idle", "called"})
          => /\ open.pc = "returned"
             /\ oret.err = <<"unknown APP_ENV value">>
    /\ ConfigErrorReturned
          => /\ oret.db = NilDB
             /\ Len(oret.err) = 1
             /\ NothingAttempted

\* Open has returned envLabel's error for APP_ENV=dev and nothing else has
\* happened
C19_Witness ==
    /\ environ["APP_ENV"] = <<"d","e","v">>
    /\ open.pc = "returned"
    /\ oret.err = <<"unknown APP_ENV value">>
    /\ oret.db = NilDB
    /\ NothingAttempted

----------------------------------------------------------------------------
(* The local path, under Spec                                              *)

\* the value of a local setting: the variable without the white space
\* around it, or the default if nothing is left
LocalSetting(key, def) ==
    IF StrippedOf(environ[key]) = <<>> THEN def ELSE StrippedOf(environ[key])

\* Open has classified the environment as local and resolved the DSN
LocalResolved ==
    /\ open.env = <<"l","o","c","a","l">>
    /\ open.pc \notin {"idle", "called", "resolveDSN"}

\* C20: when the label is local, Open builds the DSN from the POSTGRES_*
\* and DB_SSL_MODE settings only and reports the source "local-env-vars";
\* at no time does it call the secret provider, read or write the secret
\* cache or take its lock, or initialize the remote-config singleton, and
\* DB_SECRET_NAME has no effect.
C20_LocalPathIsolation ==
    /\ LocalResolved
          => /\ open.secretUsed = <<"l","o","c","a","l","-","e","n","v","-",
                                    "v","a","r","s">>
             /\ open.dsn =
                   <<"p","o","s","t","g","r","e","s","q","l",":","/","/">>
                   \o LocalSetting("POSTGRES_USER",
                                   <<"p","o","s","t","g","r","e","s">>)
                   \o <<":">>
                   \o LocalSetting("POSTGRES_PASSWORD",
                                   <<"p","o","s","t","g","r","e","s">>)
                   \o <<"@">>
                   \o LocalSetting("POSTGRES_HOST",
                                   <<"l","o","c","a","l","h","o","s","t">>)
                   \o <<":">>
                   \o LocalSetting("POSTGRES_PORT", <<"5","4","3","2">>)
                   \o <<"/">>
                   \o LocalSetting("POSTGRES_DB",
                                   <<"p","o","s","t","g","r","e","s">>)
                   \o <<"?","s","s","l","m","o","d","e","=">>
                   \o LocalSetting("DB_SSL_MODE",
                                   <<"d","i","s","a","b","l","e">>)
    /\ (open.env = <<"l","o","c","a","l">> \/ open.pc \in {"idle", "called"})
          => /\ fcalls[MainCaller] = 0
             /\ fpc[MainCaller] = "idle"
             /\ \A c \in Callers : requests[c] = 0
             /\ \A n \in SecretNames : ~secretCache[n].present
             /\ secretCacheMu = [w |-> None, r |-> {}]
             /\ initRuns = 0
             /\ ~awsCfgOnce.done
             /\ awsCfgOnce.m = None
             /\ cfgReturned = {}

\* Open has returned a handle opened with the local DSN although
\* DB_SECRET_NAME names a secret; the provider was never called
C20_Witness ==
    /\ LocalResolved
    /\ environ["DB_SECRET_NAME"] # <<>>
    /\ environ["POSTGRES_HOST"] = <<" ","p","g">>
    /\ open.pc = "returned"
    /\ oret.db # NilDB
    /\ oret.err = Nil
    /\ open.secretUsed = <<"l","o","c","a","l","-","e","n","v","-",
                           "v","a","r","s">>
    /\ fcalls[MainCaller] = 0

----------------------------------------------------------------------------
(* Eviction, under SpecFetch                                               *)

\* caller c's loadCachedSecret call for name n leaves its critical section
LookupOf(c, n) ==
    /\ fpc[c] = "lcsCheck"
    /\ fname[c] = n
    /\ fpc'[c] # "lcsCheck"

\* caller c's storeCachedSecret call for name n leaves its critical section
StoreOf(c, n) ==
    /\ fpc[c] = "scsStore"
    /\ fname[c] = n
    /\ fpc'[c] = "ret"

\* C21: the cache entry of a name changes in two ways only: it is removed
\* by a loadCachedSecret call for that name made after its expiry, or it is
\* replaced by a storeCachedSecret call for that name. No lookup or store of
\* another name and no passage of time removes or alters it, so an expired
\* entry that is not looked up stays in the map.
C21_LazyEvictionOnly ==
    [][\A n \in SecretNames :
          secretCache'[n] # secretCache[n]
              => \/ /\ secretCache[n].present
                    /\ ~secretCache'[n].present
                    /\ now > secretCache[n].expiresAt
                    /\ \E c \in Callers : LookupOf(c, n)
                 \/ /\ secretCache'[n].present
                    /\ \E c \in Callers :
                          /\ StoreOf(c, n)
                          /\ secretCache'[n].secret = fsecret[c]]_vars

\* the entry of one name is past its expiry and still in the map, while a
\* call for the other name has gone through its lookup and its store
C21_Witness ==
    \E n \in SecretNames, c \in Callers :
        /\ secretCache[n].present
        /\ now > secretCache[n].expiresAt
        /\ fpc[c] = "ret"
        /\ fname[c] # n
        /\ fret[c].err = Nil
        /\ ~fret[c].hit
        /\ secretCache[fname[c]].present
        /\ secretCache[fname[c]].storedAt > secretCache[n].expiresAt

----------------------------------------------------------------------------
(* When the pool is configured, under Spec                                 *)

\* how many times configureConnectionPool has been called, over all handles
RECURSIVE PoolCallsUpTo(_)
PoolCallsUpTo(k) ==
    IF k = 0 THEN 0 ELSE handles[k].poolCalls + PoolCallsUpTo(k - 1)

\* C22: the pool limits are applied exactly once per successful Open: to
\* the handle Open returns, after that handle's liveness probe succeeded and
\* before Open returns it. They are never applied to a handle that
\* openWithRetry closed, and never when Open returns an error.
C22_PoolConfiguredOnce ==
    /\ \A k \in 1..Len(handles) :
          /\ handles[k].poolCalls <= 1
          /\ handles[k].poolCalls = 1
                => /\ handles[k].pinged
                   /\ handles[k].closes = 0
                   /\ handles[k].state = "open"
                   /\ open.db = k
                   /\ open.pc \in {"return", "returned"}
    /\ open.pc \notin {"return", "returned"} => PoolCallsUpTo(Len(handles)) = 0
    /\ open.pc = "return" => handles[open.db].poolCalls = 1
    /\ open.pc = "returned"
          => IF oret.err = Nil
             THEN /\ oret.db # NilDB
                  /\ handles[oret.db].poolCalls = 1
                  /\ PoolCallsUpTo(Len(handles)) = 1
             ELSE PoolCallsUpTo(Len(handles)) = 0

\* Open has returned its third handle, configured once, after two handles
\* whose probes failed were closed without being configured
C22_Witness ==
    /\ open.pc = "returned"
    /\ oret.err = Nil
    /\ oret.db = 3
    /\ handles[3].poolCalls = 1
    /\ handles[3].pinged
    /\ \A k \in {1, 2} : handles[k].closes = 1 /\ handles[k].poolCalls = 0

----------------------------------------------------------------------------
(* Synchronization of the shared state, under SpecFetch                    *)

\* caller c is at the statements that read, insert into or delete from the
\* map secretCache
AtMapAccess(c) == fpc[c] \in {"lcsCheck", "scsStore"}

\* caller c is inside the function that awsCfgOnce.Do runs
InsideGate(c) == fpc[c] \in {"onceRun", "onceExit"}

\* C23: in every interleaving of concurrent fetchDBSecret callers, a caller
\* is at a read, insert or delete of the cache map only while it holds the
\* cache lock, and the map changes only in a step of the lock's holder; the
\* remote-config variables are written only by the one caller inside the
\* run-once gate, before the gate has completed, and are read only after it
\* has completed.
C23_NoUnsynchronizedAccess ==
    /\ [](\A c \in Callers :
            /\ AtMapAccess(c) => secretCacheMu.w = c
            /\ InsideGate(c) => awsCfgOnce.m = c /\ ~awsCfgOnce.done
            /\ fpc[c] = "cfgRead" => awsCfgOnce.done /\ awsCfgOnce.m # c)
    /\ [](Cardinality({c \in Callers : InsideGate(c)}) <= 1)
    /\ [][secretCache' # secretCache
            => \E c \in Callers :
                  /\ AtMapAccess(c)
                  /\ secretCacheMu.w = c
                  /\ fpc'[c] # fpc[c]]_vars
    /\ [][<<awsCfg, awsCfgErr>>' # <<awsCfg, awsCfgErr>>
            => \E c \in Callers :
                  /\ fpc[c] = "onceExit"
                  /\ awsCfgOnce.m = c
                  /\ ~awsCfgOnce.done
                  /\ fpc'[c] = "cfgRead"
                  /\ \A d \in Callers : fpc[d] # "cfgRead"]_vars

\* one goroutine is inside the gate, about to write the remote-config
\* variables, while the other waits at the gate; and the cache lock is free
C23_Witness ==
    /\ fpc["g1"] = "onceExit"
    /\ awsCfgOnce.m = "g1"
    /\ fpc["g2"] = "onceLock"
    /\ ~awsCfgOnce.done
    /\ secretCacheMu.w = None

----------------------------------------------------------------------------
(* Failed fetches and the cache, under SpecFetch                           *)

\* caller c's fetchDBSecret call has failed
FetchFailed(c) == fpc[c] = "ret" /\ fret[c].err # Nil

\* C24, as stated: when fetchDBSecret fails at any stage it stores nothing,
\* so the cache has no entry for that name afterwards (a failing call
\* started from a miss or an expired entry), and it returns no bundle.
C24_NoEntryAfterFailure ==
    \A c \in Callers :
        FetchFailed(c)
            => /\ ~secretCache[fname[c]].present
               /\ fret[c].secret = ZeroSecret

\* C24, amended: the cache is written only on a fully successful fetch. An
\* entry appears or is replaced only in the store of a caller whose request
\* returned the bundle the secret store holds, and that call returns that
\* bundle without error; a call that fails returns the zero bundle and
\* stores nothing itself, so the name has no entry afterwards unless another
\* caller's successful fetch has stored one; a bundle is returned from the
\* cache only while loadCachedSecret does not take it as expired.
C24_StoreOnlyOnSuccess ==
    /\ [][\A n \in SecretNames :
            (secretCache'[n].present /\ secretCache'[n] # secretCache[n])
                => \E c \in Callers :
                      /\ fpc[c] = "scsStore"
                      /\ fname[c] = n
                      /\ requests[c] = 1
                      /\ secretCache'[n].secret = remoteSecret[n].value
                      /\ fpc'[c] = "ret"
                      /\ fret'[c].err = Nil
                      /\ fret'[c].secret = remoteSecret[n].value]_vars
    /\ [][\A c \in Callers :
            (fpc'[c] = "ret" /\ fpc[c] # "ret" /\ fret'[c].err # Nil)
                => /\ fpc[c] \in {"cfgRead", "getSecretValue"}
                   /\ secretCache' = secretCache
                   /\ fret'[c].secret = ZeroSecret]_vars
    /\ [][\A c \in Callers :
            (fpc[c] = "lcsCheck" /\ fpc'[c] = "ret")
                => now <= secretCache[fname[c]].expiresAt]_vars
    /\ [](\A c \in Callers :
            (FetchFailed(c) /\ \A d \in Callers \ {c} : fcalls[d] = 0)
                => /\ ~secretCache[fname[c]].present
                   /\ fret[c].secret = ZeroSecret)

\* the only call of g1 has failed on malformed JSON and returned the zero
\* bundle, while the cache holds an entry for the name that g2 stored
C24_Witness ==
    /\ FetchFailed("g1")
    /\ fcalls["g1"] = 1
    /\ fret["g1"].err = <<"decode secret json", "invalid character">>
    /\ fret["g1"].secret = ZeroSecret
    /\ fcalls["g2"] >= 1
    /\ secretCache[fname["g1"]].present
    /\ secretCache[fname["g1"]].secret = remoteSecret[fname["g1"]].value

----------------------------------------------------------------------------
(* Provider substitution, under SpecProvider                               *)

\* a call of OpenWithProvider with a substituted provider is in progress
SubstitutedOpen ==
    provider.kind = "stub" /\ open.pc \notin {"idle", "returned"}

\* the calls of the substituted provider's GetSecret made in the k-th call
\* of OpenWithProvider
StubCallsOf(k) ==
    {i \in 1..Len(provider.calls) : provider.calls[i].open = k}

\* the call of OpenWithProvider in progress, or the last one to return,
\* went past resolveDSN with a DSN built from a bundle
UsesBundle ==
    /\ open.pc \in {"sqlOpen", "PingContext", "dbClose", "backoff",
                    "configureConnectionPool", "return", "returned"}
    /\ open.env # localEnvVal
    /\ open.dsn # <<>>

\* C25: when OpenWithProvider is given a provider other than the default,
\* the bundle used for the DSN is exactly what that provider's GetSecret
\* returned on this call, GetSecret is called at most once per Open (once
\* whenever a bundle is used, not at all in the local environment), and
\* while that Open runs the secret cache, its mutex, the remote-config
\* singleton and its gate, and fetchDBSecret are left alone, so a second
\* Open uses what the provider returns to it and nothing an earlier Open
\* obtained.
C25_ProviderSubstitution ==
    /\ [](\A k \in 1..MaxOpens : Cardinality(StubCallsOf(k)) <= 1)
    /\ []((provider.kind = "stub" /\ UsesBundle)
            => /\ Cardinality(StubCallsOf(provider.opens)) = 1
               /\ LET call == provider.calls[Len(provider.calls)]
                  IN  /\ call.open = provider.opens
                      /\ call.err = Nil
                      /\ call.name = open.secretUsed
                      /\ call.name = selectSecretName(open.env).name
                      /\ open.dsn = remoteDSN(call.secret))
    /\ []((provider.kind = "stub" /\ open.env = localEnvVal
           /\ open.pc \notin {"idle", "called"})
            => StubCallsOf(provider.opens) = {})
    /\ [][SubstitutedOpen
            => UNCHANGED <<cacheVars, onceVars, fetchVars>>]_vars

\* after an Open with the default provider has cached the store's bundle,
\* a second Open with a substituted provider has returned a handle whose
\* DSN is built from the bundle the provider returned to it, which is not
\* the cached one, and the cached entry is as it was
C25_Witness ==
    /\ provider.opens = 2
    /\ provider.kind = "stub"
    /\ open.pc = "returned"
    /\ oret.err = Nil
    /\ Len(provider.calls) = 1
    /\ secretCache[open.secretUsed].present
    /\ secretCache[open.secretUsed].secret = remoteSecret[open.secretUsed].value
    /\ provider.calls[1].secret # secretCache[open.secretUsed].secret
    /\ open.dsn = remoteDSN(provider.calls[1].secret)
    /\ open.dsn # remoteDSN(secretCache[open.secretUsed].secret)

============================================================================
